---------------------------- MODULE Spec2Model ----------------------------
(***************************************************************************)
(* A model of the astropix-analysis package: the AstroPix 4 readout        *)
(* decoder (astropix_analysis/fmt.py), the .apx container file             *)
(* (astropix_analysis/fileio.py), the histograms (astropix_analysis/       *)
(* hist.py), the row/column matcher (astropix3rowcol.py) and the threshold *)
(* scan reduction (astropix_analysis/scan.py).                             *)
(*                                                                         *)
(* Conventions.  A Python bytes object is a sequence of integers 0..255.   *)
(* Positions (cursor, offset) are 0-based as in the source; Slice(s, a, b) *)
(* is the Python slice s[a:b].  An optional value (None or a value) is a   *)
(* sequence of length 0 (None) or 1 (the value).  A Python exception that  *)
(* leaves a method is recorded as the outcome of the call.                 *)
(***************************************************************************)
EXTENDS Integers, Sequences, FiniteSets, TLC

VARIABLES
    ro,        \* decoder: the readout objects, by slot ("A", "B")
    res,       \* decoder: per slot, the last decode call (argument, return, outcome, count)
    scen,      \* decoder: the input scenario the readouts were built from
    file,      \* container file: the bytes on disk
    written,   \* container file: the readouts written, in order
    mode,      \* container file: "wb", "closed", "rb", "stop" (StopIteration), "fail"
    pos,       \* container file: the read position
    delivered, \* container file: the readouts __next__ has returned, in order
    lastNext,  \* container file: the last __next__ call (bytes read as marker, outcome)
    damaged,   \* container file: whether the bytes on disk were altered after writing
    hdr,       \* file header: the header, the bytes written and what was read back
    hst,       \* histograms: the two operands and the result of the last operation
    rcm,       \* row/column matcher: the half-hits and the matched records
    scn,       \* threshold scan: the files of the folder and the summary written
    gry,       \* Gray code: the code converted and the result
    lgf,       \* legacy log file: the lines, the read cursor and what was parsed and yielded
    cnv,       \* log conversion: the log, the output file and the warnings
    mon,       \* monitor: the receiver, the queue, the two threads and what was processed
    lps,       \* long-running loops: the program, its position, its open files and how it ended
    tbl,       \* stream decoding: the readouts of the stream and the hits decoded
    fit,       \* fit: the model, the data and the outcome of the last fit
    run,       \* analysis of a run: the decoded rows and what the two filters kept
    qdc,       \* quad chip decoder: the stream, the chunk read, the carry and the frames decoded
    win,       \* source decoder: the lines of the log and the windows read
    liv,       \* live decoder: the log file, the read position and the lines decoded
    flt        \* hit filter: the candidate string and the hits returned

decVars == <<ro, res, scen>>
fileVars == <<file, written, mode, pos, delivered, lastNext, damaged>>

vars == <<decVars, fileVars, hdr, hst, rcm, scn, gry, lgf, cnv, mon, lps, tbl, fit, run, qdc, win, liv, flt>>

\* The variables an action of one part of the package leaves alone.
notDec == <<fileVars, hdr, hst, rcm, scn, gry, lgf, cnv, mon, lps, tbl, fit, run, qdc, win, liv, flt>>
notFile == <<decVars, hdr, hst, rcm, scn, gry, lgf, cnv, mon, lps, tbl, fit, run, qdc, win, liv, flt>>
notHdr == <<decVars, fileVars, hst, rcm, scn, gry, lgf, cnv, mon, lps, tbl, fit, run, qdc, win, liv, flt>>
notHist == <<decVars, fileVars, hdr, rcm, scn, gry, lgf, cnv, mon, lps, tbl, fit, run, qdc, win, liv, flt>>
notRowCol == <<decVars, fileVars, hdr, hst, scn, gry, lgf, cnv, mon, lps, tbl, fit, run, qdc, win, liv, flt>>
notScan == <<decVars, fileVars, hdr, hst, rcm, gry, lgf, cnv, mon, lps, tbl, fit, run, qdc, win, liv, flt>>

notGray == <<decVars, fileVars, hdr, hst, rcm, scn, lgf, cnv, mon, lps, tbl, fit, run, qdc, win, liv, flt>>
notLog == <<decVars, fileVars, hdr, hst, rcm, scn, gry, cnv, mon, lps, tbl, fit, run, qdc, win, liv, flt>>
notConv == <<decVars, fileVars, hdr, hst, rcm, scn, gry, lgf, mon, lps, tbl, fit, run, qdc, win, liv, flt>>
notMon == <<decVars, fileVars, hdr, hst, rcm, scn, gry, lgf, cnv, lps, tbl, fit, run, qdc, win, liv, flt>>
notLoop == <<decVars, fileVars, hdr, hst, rcm, scn, gry, lgf, cnv, mon, tbl, fit, run, qdc, win, liv, flt>>
notTable == <<decVars, fileVars, hdr, hst, rcm, scn, gry, lgf, cnv, mon, lps, fit, run, qdc, win, liv, flt>>

notFit == <<decVars, fileVars, hdr, hst, rcm, scn, gry, lgf, cnv, mon, lps, tbl, run, qdc, win, liv, flt>>
notRun == <<decVars, fileVars, hdr, hst, rcm, scn, gry, lgf, cnv, mon, lps, tbl, fit, qdc, win, liv, flt>>
notQuad == <<decVars, fileVars, hdr, hst, rcm, scn, gry, lgf, cnv, mon, lps, tbl, fit, run, win, liv, flt>>
notWindow == <<decVars, fileVars, hdr, hst, rcm, scn, gry, lgf, cnv, mon, lps, tbl, fit, run, qdc, liv, flt>>
notLive == <<decVars, fileVars, hdr, hst, rcm, scn, gry, lgf, cnv, mon, lps, tbl, fit, run, qdc, win, flt>>
notFilter == <<decVars, fileVars, hdr, hst, rcm, scn, gry, lgf, cnv, mon, lps, tbl, fit, run, qdc, win, liv>>

\* A part of the package that a specification about another part leaves out.
HdrIdle == hdr = [phase |-> "none"]
HistIdle == hst = [phase |-> "none"]
RowColIdle == rcm = [phase |-> "none"]
ScanIdle == scn = [phase |-> "none"]
GrayIdle == gry = [phase |-> "none"]
LogIdle == lgf = [phase |-> "none"]
ConvIdle == cnv = [phase |-> "none"]
MonIdle == mon = [phase |-> "none"]
LoopIdle == lps = [phase |-> "none"]
TableIdle == tbl = [phase |-> "none"]
FitIdle == fit = [phase |-> "none"]
RunIdle == run = [phase |-> "none"]
QuadIdle == qdc = [phase |-> "none"]
WindowIdle == win = [phase |-> "none"]
LiveIdle == liv = [phase |-> "none"]
FilterIdle == flt = [phase |-> "none"]

None == <<>>
Some(x) == <<x>>

(***************************************************************************)
(* Python helpers                                                          *)
(***************************************************************************)

\* s[a:b] for 0 <= a, clipped at the end of s as Python does.
Slice(s, a, b) ==
    LET hi == IF b < Len(s) THEN b ELSE Len(s)
    IN  IF a >= hi THEN <<>> ELSE [i \in 1..(hi - a) |-> s[a + i]]

\* bytes.rstrip(chars): drop every trailing byte that is in chars.
RECURSIVE rstrip(_, _)
rstrip(s, chars) ==
    IF Len(s) > 0 /\ s[Len(s)] \in chars THEN rstrip(SubSeq(s, 1, Len(s) - 1), chars) ELSE s

RECURSIVE Flatten(_)
Flatten(ss) == IF ss = <<>> THEN <<>> ELSE Head(ss) \o Flatten(Tail(ss))

RECURSIVE RevBits(_, _)
RevBits(b, n) == IF n = 0 THEN 0 ELSE (b % 2) * (2 ^ (n - 1)) + RevBits(b \div 2, n - 1)

\* fmt.reverse_bit_order: every byte is replaced by its 8-bit mirror image.
reverse_bit_order(data) == [i \in 1..Len(data) |-> RevBits(data[i], 8)]

(***************************************************************************)
(* fmt.py: constants of the readout classes                                *)
(***************************************************************************)

PADDING_BYTE == 255
IDLE_BYTE == 188
HIT_SIZE == 8

\* Decoding (IntEnum): the bits of DecodingStatus._status_code.  The status
\* is modelled as the set of the bits that are set.
ORPHAN_BYTES_MATCHED == 0
ORPHAN_BYTES_DROPPED == 1
ORPHAN_BYTES_NOT_USED == 2
VALID_EXTRA_BYTES == 3
INVALID_EXTRA_BYTES == 4
INCOMPLETE_DATA_DROPPED == 5
FATAL_ERROR == 6

\* ByteType (IntEnum): the entries of the byte mask.
BT_NOT_ASSIGNED == 0
BT_IDLE == 2
BT_HIT_START == 3
BT_HIT == 4
BT_EXTRA == 5
BT_ORPHAN == 6
BT_DROPPED == 7

(***************************************************************************)
(* fmt.py: hits                                                            *)
(***************************************************************************)

\* AbstractAstroPixHit.__init__ / AstroPix4Hit.__init__: BitPattern slices
\* the bit string at the fixed positions of _LAYOUT, in the order of the
\* layout; a slice that lies beyond the string is '' and int('', 2) raises
\* ValueError, a single index beyond the string raises IndexError.  With 8
\* bytes or more every field is there.
HitRaises(data) ==
    IF Len(data) >= HIT_SIZE THEN "ok"
    ELSE IF Len(data) \in {2, 5} THEN "IndexError"
    ELSE "ValueError"

\* The hit object: the raw data it was built from and the fields the readout
\* hands down.  (The bit fields are functions of data.)
AstroPix4Hit(data, readout_id, timestamp, decoding_order) ==
    [data |-> data, readout_id |-> readout_id, timestamp |-> timestamp,
     decoding_order |-> decoding_order]

\* AbstractAstroPixHit.__eq__: equality by raw data only.
HitEq(h1, h2) == h1.data = h2.data

\* Equality of two lists of hits, as tuple(...) == (...) in the tests.
HitsEq(l1, l2) ==
    Len(l1) = Len(l2) /\ \A i \in 1..Len(l1) : HitEq(l1[i], l2[i])

(***************************************************************************)
(* fmt.py: readouts                                                        *)
(***************************************************************************)

\* AbstractAstroPixReadout.__init__: the trailing padding bytes are stripped,
\* nothing is decoded yet.
Readout(readout_data, readout_id, timestamp) ==
    LET data == rstrip(readout_data, {PADDING_BYTE})
    IN  [data |-> data, readout_id |-> readout_id, timestamp |-> timestamp,
         decoded |-> FALSE, status |-> {}, extra |-> None,
         mask |-> [i \in 1..Len(data) |-> BT_NOT_ASSIGNED], hits |-> <<>>]

\* ord(byte) raises TypeError unless byte holds exactly one byte; the `and`
\* of is_valid_start_byte reaches ord() only when byte != PADDING_BYTE.
StartByteRaises(byte) == byte # <<PADDING_BYTE>> /\ Len(byte) # 1

\* A check that accepts the start byte of chip 0 only.
is_valid_start_byte_ChipZeroOnly(byte) == byte = <<224>>

\* AstroPix4Readout.is_valid_start_byte, for a byte it does not raise on.
is_valid_start_byte(byte) == byte # <<PADDING_BYTE>> /\ (byte[1] \div 32) = 7

\* The position reached by `while data[cursor:cursor + 1] in bytes_: cursor += 1`.
RECURSIVE SkipWhile(_, _, _)
SkipWhile(data, cursor, bytes_) ==
    IF cursor < Len(data) /\ data[cursor + 1] \in bytes_
    THEN SkipWhile(data, cursor + 1, bytes_)
    ELSE cursor

\* mask[a:b] = type (numpy slice assignment, clipped at the end).
SetMask(mask, a, b, type) ==
    [i \in 1..Len(mask) |-> IF a < i /\ i <= b THEN type ELSE mask[i]]

\* The offset reached by the loop of decode that looks for the next valid
\* start byte after the orphan bytes (offset starts at 1), or -1 when the
\* loop runs off the end of the data, where is_valid_start_byte(b'') raises.
RECURSIVE NextStartOffset(_, _, _)
NextStartOffset(data, cursor, offset) ==
    LET byte == Slice(data, cursor + offset, cursor + offset + 1)
    IN  IF StartByteRaises(byte) THEN -1
        ELSE IF is_valid_start_byte(byte) THEN offset
        ELSE NextStartOffset(data, cursor, offset + 1)

\* AbstractAstroPixReadout._add_hit on the decoding state st (the hits so
\* far): the bit order is reversed, the hit built and appended.  A hit that
\* cannot be built leaves the exception as the outcome.
\* st = [cursor, hits, status, extra, mask, outcome].
add_hit(st, hit_data, readout_id, timestamp) ==
    IF HitRaises(hit_data) # "ok"
    THEN [st EXCEPT !.outcome = HitRaises(hit_data)]
    ELSE [st EXCEPT !.hits = Append(@, AstroPix4Hit(reverse_bit_order(hit_data),
                                          readout_id, timestamp, Len(@)))]

\* self._decoding_status.set(bit)
SetStatus(st, bit) == [st EXCEPT !.status = @ \cup {bit}]

\* `while data[cursor:cursor + 1] in bytes_: mask[cursor] = IDLE; cursor += 1`
SkipIdle(data, st, bytes_) ==
    [st EXCEPT !.mask = SetMask(@, st.cursor, SkipWhile(data, st.cursor, bytes_), BT_IDLE),
               !.cursor = SkipWhile(data, @, bytes_)]

\* data[cursor:cursor + offset].rstrip(IDLE_BYTE)
OrphanBytes(data, cursor, offset) == rstrip(Slice(data, cursor, cursor + offset), {IDLE_BYTE})

\* decode, the orphan bytes: the portion is marked idle, its orphan part
\* orphan, and the cursor moves to the start byte that was found.
MarkOrphans(st, offset, orphan_bytes) ==
    [st EXCEPT !.mask = SetMask(SetMask(@, st.cursor, st.cursor + offset, BT_IDLE),
                                st.cursor, st.cursor + Len(orphan_bytes), BT_ORPHAN),
               !.cursor = @ + offset]

\* decode, the orphan bytes: with extra bytes of the previous readout they
\* make a hit if the total size is that of a hit.
ReassembleHit(r, extra_bytes, st, orphan_bytes) ==
    IF extra_bytes # None
    THEN IF Len(extra_bytes[1] \o orphan_bytes) = HIT_SIZE
         THEN SetStatus(add_hit(st, extra_bytes[1] \o orphan_bytes, r.readout_id, r.timestamp),
                        ORPHAN_BYTES_MATCHED)
         ELSE SetStatus(st, ORPHAN_BYTES_DROPPED)
    ELSE SetStatus(st, ORPHAN_BYTES_NOT_USED)

\* decode, the orphan bytes up to the offset of the next valid start byte
\* (-1: the search ran off the end of the data and raised).
OrphansUpTo(r, extra_bytes, st, offset) ==
    IF offset = -1 THEN [st EXCEPT !.outcome = "TypeError"]
    ELSE ReassembleHit(r, extra_bytes,
                       MarkOrphans(st, offset, OrphanBytes(r.data, st.cursor, offset)),
                       OrphanBytes(r.data, st.cursor, offset))

\* decode, the first legitimate byte (st is past the leading idle bytes).
FirstByte(r, extra_bytes, st) ==
    IF StartByteRaises(Slice(r.data, st.cursor, st.cursor + 1))
    THEN [st EXCEPT !.outcome = "TypeError"]
    ELSE IF is_valid_start_byte(Slice(r.data, st.cursor, st.cursor + 1)) THEN st
    ELSE OrphansUpTo(r, extra_bytes, st, NextStartOffset(r.data, st.cursor, 1))

\* decode, the first part: skip the leading idle and padding bytes, then
\* handle the orphan bytes at the beginning of the readout.
DecodeOrphans(r, extra_bytes) ==
    FirstByte(r, extra_bytes,
              SkipIdle(r.data,
                       [cursor |-> 0, hits |-> r.hits, status |-> r.status, extra |-> r.extra,
                        mask |-> r.mask, outcome |-> "ok"],
                       {IDLE_BYTE, PADDING_BYTE}))

\* The loop over bytes 1..7 with a look-ahead that does not skip the idle
\* bytes after the word: an idle byte after the word counts as "not a start
\* byte".
RECURSIVE InnerStartLoop_NoIdleSkip(_, _, _)
InnerStartLoop_NoIdleSkip(rdata, w, offset) ==
    IF offset > HIT_SIZE - 1 THEN w
    ELSE LET byte == Slice(w.data, offset, offset + 1) IN
         IF StartByteRaises(byte) THEN [w EXCEPT !.outcome = "TypeError"]
         ELSE IF ~is_valid_start_byte(byte) THEN InnerStartLoop_NoIdleSkip(rdata, w, offset + 1)
         ELSE LET forward_cursor == w.cursor + HIT_SIZE IN
              IF forward_cursor < Len(rdata)
                 /\ ~is_valid_start_byte(Slice(rdata, forward_cursor, forward_cursor + 1))
              THEN InnerStartLoop_NoIdleSkip(rdata,
                       [w EXCEPT !.status = @ \cup {INCOMPLETE_DATA_DROPPED},
                                 !.mask = SetMask(@, w.cursor, w.cursor + offset, BT_DROPPED),
                                 !.cursor = w.cursor + offset,
                                 !.data = Slice(rdata, w.cursor + offset,
                                                w.cursor + offset + HIT_SIZE)],
                       offset + 1)
              ELSE InnerStartLoop_NoIdleSkip(rdata, w, offset + 1)

\* decode, the loop over bytes 1..7 of the 8-byte word at the cursor: an inner
\* valid start byte makes the decoder look at what follows the word and its
\* idle bytes, and drop the bytes before the inner start byte when that is
\* not a valid start byte.  w = [cursor, data (the word), status, mask, outcome].
\* The range of the loop is fixed when it starts, while the word is replaced
\* at every drop.
RECURSIVE InnerStartLoop(_, _, _)
InnerStartLoop(rdata, w, offset) ==
    IF offset > HIT_SIZE - 1 THEN w
    ELSE LET byte == Slice(w.data, offset, offset + 1) IN
         IF StartByteRaises(byte) THEN [w EXCEPT !.outcome = "TypeError"]
         ELSE IF ~is_valid_start_byte(byte) THEN InnerStartLoop(rdata, w, offset + 1)
         ELSE LET forward_cursor == SkipWhile(rdata, w.cursor + HIT_SIZE, {IDLE_BYTE}) IN
              IF forward_cursor < Len(rdata)
                 /\ ~is_valid_start_byte(Slice(rdata, forward_cursor, forward_cursor + 1))
              THEN InnerStartLoop(rdata,
                       [w EXCEPT !.status = @ \cup {INCOMPLETE_DATA_DROPPED},
                                 !.mask = SetMask(@, w.cursor, w.cursor + offset, BT_DROPPED),
                                 !.cursor = w.cursor + offset,
                                 !.data = Slice(rdata, w.cursor + offset,
                                                w.cursor + offset + HIT_SIZE)],
                       offset + 1)
              ELSE InnerStartLoop(rdata, w, offset + 1)

\* The truncated data set aside as extra bytes whatever its first byte is.
TruncatedHit_AlwaysSetAside(data, st) ==
    IF is_valid_start_byte(Slice(data, st.cursor, st.cursor + 1))
    THEN [st EXCEPT !.mask = SetMask(SetMask(@, st.cursor, Len(data), BT_EXTRA),
                                     st.cursor, st.cursor + 1, BT_HIT_START),
                    !.extra = Some(Slice(data, st.cursor, Len(data))),
                    !.status = @ \cup {VALID_EXTRA_BYTES}]
    ELSE [st EXCEPT !.mask = SetMask(@, st.cursor, Len(data), BT_EXTRA),
                    !.extra = Some(Slice(data, st.cursor, Len(data))),
                    !.status = @ \cup {INVALID_EXTRA_BYTES}]

\* decode, truncated hit data at the end of the readout: set aside as extra
\* bytes when it begins with a valid start byte.
TruncatedHit(data, st) ==
    IF is_valid_start_byte(Slice(data, st.cursor, st.cursor + 1))
    THEN [st EXCEPT !.mask = SetMask(SetMask(@, st.cursor, Len(data), BT_EXTRA),
                                     st.cursor, st.cursor + 1, BT_HIT_START),
                    !.extra = Some(Slice(data, st.cursor, Len(data))),
                    !.status = @ \cup {VALID_EXTRA_BYTES}]
    ELSE [st EXCEPT !.mask = SetMask(@, st.cursor, Len(data), BT_EXTRA),
                    !.status = @ \cup {INVALID_EXTRA_BYTES}]

\* decode, the tentative 8-byte word at the cursor.
Word(data, st) ==
    [cursor |-> st.cursor, data |-> Slice(data, st.cursor, st.cursor + HIT_SIZE),
     status |-> st.status, mask |-> st.mask, outcome |-> "ok"]

\* decode, self._add_hit(data) with the word w the inner loop arrived at.
StoreHit(r, st, w) ==
    IF w.outcome # "ok"
    THEN [st EXCEPT !.cursor = w.cursor, !.status = w.status, !.mask = w.mask,
                    !.outcome = w.outcome]
    ELSE add_hit([st EXCEPT !.cursor = w.cursor, !.status = w.status, !.mask = w.mask],
                 w.data, r.readout_id, r.timestamp)

\* decode, after the hit is stored: its bytes are marked, the cursor moves
\* past the hit and the idle bytes that follow.
MarkHit(data, st) ==
    IF st.outcome # "ok" THEN st
    ELSE SkipIdle(data,
                  [st EXCEPT !.mask = SetMask(SetMask(@, st.cursor, st.cursor + 1, BT_HIT_START),
                                              st.cursor + 1, st.cursor + HIT_SIZE, BT_HIT),
                             !.cursor = @ + HIT_SIZE],
                  {IDLE_BYTE})

RECURSIVE DecodeLoop(_, _)

\* decode, one turn of the main loop after its idle and padding bytes are
\* skipped.
DecodeWord(r, st) ==
    IF st.cursor = Len(r.data) THEN st
    ELSE IF st.cursor + HIT_SIZE >= Len(r.data) THEN TruncatedHit(r.data, st)
    ELSE IF ~is_valid_start_byte(Slice(r.data, st.cursor, st.cursor + 1))
    THEN SetStatus(st, FATAL_ERROR)
    ELSE DecodeLoop(r, MarkHit(r.data,
                               StoreHit(r, st, InnerStartLoop(r.data, Word(r.data, st), 1))))

\* decode, the main loop (`while cursor < len(self._readout_data)`).
DecodeLoop(r, st) ==
    IF st.outcome # "ok" \/ st.cursor >= Len(r.data) THEN st
    ELSE DecodeWord(r, SkipIdle(r.data, st, {IDLE_BYTE, PADDING_BYTE}))

\* The readout object and the result of a decode call that ended in state st.
Decoded(r, st) ==
    [self |-> [r EXCEPT !.decoded = TRUE, !.hits = st.hits, !.status = st.status,
                        !.extra = st.extra, !.mask = st.mask],
     ret |-> IF st.outcome = "ok" THEN Some(st.hits) ELSE None,
     outcome |-> st.outcome]

\* decode without the check of the decoded flag: every call scans again.
decode_NoMemo(r, extra_bytes) ==
    Decoded(r, DecodeLoop(r, DecodeOrphans(r, extra_bytes)))

\* AstroPix4Readout.decode: the readout object after the call, and what the
\* call returned (None when an exception left it).
decode(r, extra_bytes) ==
    IF r.decoded THEN [self |-> r, ret |-> Some(r.hits), outcome |-> "ok"]
    ELSE Decoded(r, DecodeLoop(r, DecodeOrphans(r, extra_bytes)))

(***************************************************************************)
(* The decoder as a state machine: readout objects and decode calls        *)
(***************************************************************************)

\* Bounds of the decoder specifications.
MaxTokens == 4     \* a readout buffer is made of at most this many tokens
MaxCalls == 2      \* decode calls per readout object

\* Sample data of tests/test_decode.py: a plain hit, a hit with a start byte
\* inside, a hit cut after six bytes and the two bytes that were cut off.
HIT_1 == <<224, 80, 66, 3, 6, 32, 215, 1>>
HIT_3 == <<224, 80, 66, 224, 80, 65, 19, 6>>
FRAGMENT == <<224, 80, 66, 3, 6, 32>>
ORPHAN == <<215, 1>>

\* What a readout buffer is made of: idle, padding, an ordinary byte, a start
\* byte (chip 0 and chip 5), whole hits, and the two halves of a split hit.
Tokens == {<<IDLE_BYTE>>, <<PADDING_BYTE>>, <<1>>, <<224>>, <<229>>,
           HIT_1, HIT_3, FRAGMENT, ORPHAN}

RECURSIVE TokenSeqs(_)
TokenSeqs(n) ==
    IF n = 0 THEN {<<>>}
    ELSE LET shorter == TokenSeqs(n - 1)
         IN  shorter \cup {Append(ts, t) : ts \in {x \in shorter : Len(x) = n - 1}, t \in Tokens}

Buffers == {Flatten(ts) : ts \in TokenSeqs(MaxTokens)}

\* The extra_bytes arguments a caller passes to decode.
ExtraArgs == {None, Some(FRAGMENT), Some(<<224>>)}

\* No decode call yet.  first and snap record the outcome of the first call
\* and the object it left behind.
NoCall == [arg |-> None, ret |-> None, outcome |-> "none", ncalls |-> 0,
           first |-> None, snap |-> None]

\* What a decode call with result d leaves behind: the object, and the record
\* of the call.
Returned(slot, extra_bytes, d) ==
    /\ ro' = [ro EXCEPT ![slot] = d.self]
    /\ res' = [res EXCEPT ![slot] =
                  [arg |-> extra_bytes, ret |-> d.ret, outcome |-> d.outcome,
                   ncalls |-> @.ncalls + 1,
                   first |-> IF @.ncalls = 0 THEN Some([ret |-> d.ret, outcome |-> d.outcome])
                             ELSE @.first,
                   snap |-> IF @.ncalls = 0 THEN Some(d.self) ELSE @.snap]]

\* readout.decode(extra_bytes) on the readout object of a slot.
DecodeCall(slot, extra_bytes) ==
    /\ res[slot].ncalls < MaxCalls
    /\ Returned(slot, extra_bytes, decode(ro[slot], extra_bytes))
    /\ UNCHANGED <<scen, notDec>>

\* The decoder part when a specification is about another part.
DecIdle ==
    /\ scen = [kind |-> "none"]
    /\ ro = [A |-> Readout(<<>>, 0, 0), B |-> Readout(<<>>, 0, 0)]
    /\ res = [A |-> NoCall, B |-> NoCall]

\* The container file part when a specification is about another part.
FileIdle ==
    /\ file = <<>> /\ written = <<>> /\ mode = "none" /\ pos = 0
    /\ delivered = <<>> /\ lastNext = [marker |-> <<>>, outcome |-> "none"]
    /\ damaged = FALSE

\* One readout object built from any buffer, decoded again and again.
InitDecode ==
    /\ FileIdle /\ HdrIdle /\ HistIdle /\ RowColIdle /\ ScanIdle
    /\ GrayIdle /\ LogIdle /\ ConvIdle /\ MonIdle /\ LoopIdle /\ TableIdle
    /\ FitIdle /\ RunIdle /\ QuadIdle /\ WindowIdle /\ LiveIdle /\ FilterIdle
    /\ scen \in {[kind |-> "single", buf |-> b] : b \in Buffers}
    /\ ro = [A |-> Readout(scen.buf, 0, 0), B |-> Readout(<<>>, 0, 0)]
    /\ res = [A |-> NoCall, B |-> NoCall]

NextDecode == \E extra_bytes \in ExtraArgs : DecodeCall("A", extra_bytes)

SpecDecode == InitDecode /\ [][NextDecode]_vars

(***************************************************************************)
(* A hit split across two consecutive readouts (tests/test_decode.py,      *)
(* samples 2 and 3): readout A ends with the first k bytes of the hit,     *)
(* readout B begins with the rest, and B is decoded with the extra bytes   *)
(* of A.                                                                   *)
(***************************************************************************)

HIT_2 == <<224, 80, 65, 19, 6, 32, 215, 1>>
\* Hits whose payload holds a byte that equals the idle byte, the padding
\* byte, or a start byte.
HIT_IDLE == <<224, 80, 188, 3, 6, 32, 215, 1>>
HIT_PAD == <<224, 80, 66, 3, 255, 32, 215, 1>>
HIT_CHIP5 == <<229, 80, 66, 3, 6, 32, 215, 1>>

SplitHits == {HIT_1, HIT_3, HIT_IDLE, HIT_PAD, HIT_CHIP5}
\* What comes before the cut hit in A, and after its remainder in B.
SplitPre == {<<>>, <<IDLE_BYTE, IDLE_BYTE>>, <<IDLE_BYTE>> \o HIT_1 \o <<IDLE_BYTE, IDLE_BYTE>>}
SplitPost == {<<IDLE_BYTE, IDLE_BYTE>> \o HIT_2 \o <<IDLE_BYTE, IDLE_BYTE>>,
              <<IDLE_BYTE, IDLE_BYTE>>,
              HIT_2 \o <<IDLE_BYTE>>}
\* The padding the DAQ appends to a readout.
Padding == <<PADDING_BYTE, PADDING_BYTE>>

InitSplit ==
    /\ FileIdle /\ HdrIdle /\ HistIdle /\ RowColIdle /\ ScanIdle
    /\ GrayIdle /\ LogIdle /\ ConvIdle /\ MonIdle /\ LoopIdle /\ TableIdle
    /\ FitIdle /\ RunIdle /\ QuadIdle /\ WindowIdle /\ LiveIdle /\ FilterIdle
    /\ scen \in {[kind |-> "split", hit |-> h, k |-> k, pre |-> pre, post |-> post] :
                    h \in SplitHits, k \in 1..(HIT_SIZE - 1), pre \in SplitPre, post \in SplitPost}
    /\ ro = [A |-> Readout(scen.pre \o SubSeq(scen.hit, 1, scen.k) \o Padding, 0, 0),
             B |-> Readout(SubSeq(scen.hit, scen.k + 1, HIT_SIZE) \o scen.post \o Padding, 0, 0)]
    /\ res = [A |-> NoCall, B |-> NoCall]

\* readout2.decode(), then readout3.decode(readout2.extra_bytes()).
DecodeFirst == DecodeCall("A", None)
DecodeSecond == res["A"].ncalls >= 1 /\ DecodeCall("B", ro["A"].extra)

NextSplit == DecodeFirst \/ DecodeSecond

SpecSplit == InitSplit /\ [][NextSplit]_vars

(***************************************************************************)
(* Two hits back to back and the same two hits with idle bytes in between  *)
(* (tests/test_decode.py, samples 0 and 1): readout A holds H1 H2, readout *)
(* B holds H1, gap idle bytes, H2; everything else is the same.            *)
(***************************************************************************)

MaxGap == 2

GapHits == {HIT_1, HIT_2, HIT_3, HIT_IDLE, HIT_PAD, HIT_CHIP5}
GapPre == {<<>>, <<IDLE_BYTE, IDLE_BYTE>>, <<IDLE_BYTE, PADDING_BYTE, IDLE_BYTE>>}
GapPost == {<<IDLE_BYTE>>,
            <<IDLE_BYTE, IDLE_BYTE, IDLE_BYTE>>,
            <<IDLE_BYTE, IDLE_BYTE>> \o HIT_1 \o <<IDLE_BYTE>>,
            <<IDLE_BYTE>> \o FRAGMENT}

Idles(n) == [i \in 1..n |-> IDLE_BYTE]

InitGap ==
    /\ FileIdle /\ HdrIdle /\ HistIdle /\ RowColIdle /\ ScanIdle
    /\ GrayIdle /\ LogIdle /\ ConvIdle /\ MonIdle /\ LoopIdle /\ TableIdle
    /\ FitIdle /\ RunIdle /\ QuadIdle /\ WindowIdle /\ LiveIdle /\ FilterIdle
    /\ scen \in {[kind |-> "gap", h1 |-> h1, h2 |-> h2, gap |-> g, pre |-> pre, post |-> post] :
                    h1 \in GapHits, h2 \in GapHits, g \in 1..MaxGap,
                    pre \in GapPre, post \in GapPost}
    /\ ro = [A |-> Readout(scen.pre \o scen.h1 \o scen.h2 \o scen.post \o Padding, 0, 0),
             B |-> Readout(scen.pre \o scen.h1 \o Idles(scen.gap) \o scen.h2 \o scen.post
                           \o Padding, 0, 0)]
    /\ res = [A |-> NoCall, B |-> NoCall]

DecodeTight == DecodeCall("A", None)
DecodeSpaced == DecodeCall("B", None)

NextGap == DecodeTight \/ DecodeSpaced

SpecGap == InitGap /\ [][NextGap]_vars

(***************************************************************************)
(* Claims about the decoder                                                *)
(***************************************************************************)

Slots == {"A", "B"}

\* C1: decode is memoized.  Once a readout has been decoded, the object never
\* changes again (decoded flag set, same status, extra bytes, byte mask and
\* hits), and every later call returns, whatever its extra_bytes argument,
\* the hit list the first call computed (hit by hit, in the same order).
C1_DecodeMemoized ==
    \A slot \in Slots :
        res[slot].ncalls >= 1 =>
            /\ ro[slot].decoded
            /\ ro[slot] = res[slot].snap[1]
            /\ res[slot].ncalls >= 2 =>
                   /\ res[slot].outcome = "ok"
                   /\ res[slot].ret # None
                   /\ HitsEq(res[slot].ret[1], res[slot].snap[1].hits)
                   /\ res[slot].first[1].outcome = "ok" =>
                          HitsEq(res[slot].ret[1], res[slot].first[1].ret[1])

\* C1 witness: a readout with orphan bytes was first decoded without extra
\* bytes (so they were not used), produced a hit, and was then decoded again
\* with extra bytes that would have completed the orphans.
C1_Witness ==
    /\ res["A"].ncalls = 2
    /\ res["A"].arg = Some(FRAGMENT)
    /\ ORPHAN_BYTES_NOT_USED \in ro["A"].status
    /\ Slice(ro["A"].data, 0, 2) = ORPHAN
    /\ Len(ro["A"].hits) >= 1

\* C4: decode never raises: every call returns a list of hits.
C4_DecodeNeverRaises ==
    \A slot \in Slots : res[slot].outcome \in {"none", "ok"}

\* C2: a hit split across two readouts is put together again: A exposes the
\* first k bytes as its extra bytes, and B decoded with them returns the
\* whole hit first.
C2_SplitHitReassembled ==
    (scen.kind = "split" /\ res["A"].ncalls >= 1 /\ res["B"].ncalls >= 1) =>
        /\ ro["A"].extra = Some(SubSeq(scen.hit, 1, scen.k))
        /\ res["B"].first[1].outcome = "ok"
        /\ Len(ro["B"].hits) >= 1
        /\ HitEq(ro["B"].hits[1], AstroPix4Hit(reverse_bit_order(scen.hit), 0, 0, 0))

RECURSIVE pack(_, _)
pack(n, width) == IF width = 0 THEN <<>> ELSE <<n % 256>> \o pack(n \div 256, width - 1)

\* struct.unpack of a little-endian unsigned field.
RECURSIVE unpack(_)
unpack(bytes_) == IF bytes_ = <<>> THEN 0 ELSE Head(bytes_) + 256 * unpack(Tail(bytes_))

\* AbstractAstroPixReadout._HEADER, the marker in front of every readout.
READOUT_HEADER == <<254, 220, 186>>
READOUT_ID_SIZE == 4
TIMESTAMP_SIZE == 8
LENGTH_SIZE == 4

\* struct.pack('>L', n): most significant byte first.
RECURSIVE pack_be(_, _)
pack_be(n, width) == IF width = 0 THEN <<>> ELSE pack_be(n \div 256, width - 1) \o <<n % 256>>

\* write with the readout id in the other byte order than from_file reads.
readout_write_BigEndianId(r) ==
    READOUT_HEADER \o pack_be(r.readout_id, READOUT_ID_SIZE) \o pack(r.timestamp, TIMESTAMP_SIZE)
        \o pack(Len(r.data), LENGTH_SIZE) \o r.data

\* AbstractAstroPixReadout.write: the bytes the readout appends to the file.
readout_write(r) ==
    READOUT_HEADER \o pack(r.readout_id, READOUT_ID_SIZE) \o pack(r.timestamp, TIMESTAMP_SIZE)
        \o pack(Len(r.data), LENGTH_SIZE) \o r.data

\* from_file taking a marker that is cut short for the end of the file.
from_file_ShortMarkerIsEnd(f, p) ==
    LET header_ == Slice(f, p, p + Len(READOUT_HEADER))
        p1 == p + Len(header_)
        idb == Slice(f, p1, p1 + READOUT_ID_SIZE)
        p2 == p1 + Len(idb)
        tsb == Slice(f, p2, p2 + TIMESTAMP_SIZE)
        p3 == p2 + Len(tsb)
        lnb == Slice(f, p3, p3 + LENGTH_SIZE)
        p4 == p3 + Len(lnb)
        data == Slice(f, p4, p4 + unpack(lnb))
        fail(o, q) == [outcome |-> o, pos |-> q, marker |-> header_, readout |-> None]
    IN  IF Len(header_) < Len(READOUT_HEADER) THEN fail("None", p1)
        ELSE IF header_ # READOUT_HEADER THEN fail("RuntimeError", p1)
        ELSE IF Len(idb) < READOUT_ID_SIZE THEN fail("struct.error", p2)
        ELSE IF Len(tsb) < TIMESTAMP_SIZE THEN fail("struct.error", p3)
        ELSE IF Len(lnb) < LENGTH_SIZE THEN fail("struct.error", p4)
        ELSE [outcome |-> "ok", pos |-> p4 + Len(data), marker |-> header_,
              readout |-> Some(Readout(data, unpack(idb), unpack(tsb)))]

\* AbstractAstroPixReadout.from_file on the bytes f read from position p:
\* the outcome ("None" at the end of the file, "ok" with a readout, or the
\* exception raised), the position after the call and the bytes read where
\* the marker was expected.  struct.unpack raises struct.error on a field
\* that is cut short; a payload that is cut short is read as it is.
from_file(f, p) ==
    LET header_ == Slice(f, p, p + Len(READOUT_HEADER))
        p1 == p + Len(header_)
        idb == Slice(f, p1, p1 + READOUT_ID_SIZE)
        p2 == p1 + Len(idb)
        tsb == Slice(f, p2, p2 + TIMESTAMP_SIZE)
        p3 == p2 + Len(tsb)
        lnb == Slice(f, p3, p3 + LENGTH_SIZE)
        p4 == p3 + Len(lnb)
        data == Slice(f, p4, p4 + unpack(lnb))
        fail(o, q) == [outcome |-> o, pos |-> q, marker |-> header_, readout |-> None]
    IN  IF Len(header_) = 0 THEN fail("None", p1)
        ELSE IF header_ # READOUT_HEADER THEN fail("RuntimeError", p1)
        ELSE IF Len(idb) < READOUT_ID_SIZE THEN fail("struct.error", p2)
        ELSE IF Len(tsb) < TIMESTAMP_SIZE THEN fail("struct.error", p3)
        ELSE IF Len(lnb) < LENGTH_SIZE THEN fail("struct.error", p4)
        ELSE [outcome |-> "ok", pos |-> p4 + Len(data), marker |-> header_,
              readout |-> Some(Readout(data, unpack(idb), unpack(tsb)))]

(***************************************************************************)
(* Python values and dictionaries, JSON text                               *)
(***************************************************************************)

\* A Python value: its type and its content as numbers (the integer itself,
\* the character codes of a string, the integer items of a list or a tuple).
PyInt(n) == [t |-> "int", v |-> <<n>>]
PyStr(s) == [t |-> "str", v |-> s]
PyList(items) == [t |-> "list", v |-> items]
PyTuple(items) == [t |-> "tuple", v |-> items]
\* A dict as a value: the text between its brackets; the dicts of the model
\* are empty.
PyDict(items) == [t |-> "dict", v |-> items]

\* A dict: the <<key, value>> pairs in insertion order, the keys distinct.
DictHas(d, k) == \E i \in 1..Len(d) : d[i][1] = k
DictGet(d, k) == d[CHOOSE i \in 1..Len(d) : d[i][1] = k][2]
DictSet(d, k, v) ==
    IF DictHas(d, k) THEN [i \in 1..Len(d) |-> IF d[i][1] = k THEN <<k, v>> ELSE d[i]]
    ELSE Append(d, <<k, v>>)
DictPop(d, k) == SelectSeq(d, LAMBDA e : e[1] # k)
DictEq(d1, d2) == {d1[i] : i \in 1..Len(d1)} = {d2[i] : i \in 1..Len(d2)}

RECURSIVE DictUpdate(_, _)
DictUpdate(d, other) ==
    IF other = <<>> THEN d
    ELSE DictUpdate(DictSet(d, other[1][1], other[1][2]), Tail(other))

\* The punctuation of json.dumps with its default separators: '"', ', ', ': '.
Quote == <<34>>
ItemSep == <<44, 32>>
KeySep == <<58, 32>>

\* str(n) and int(s) for a natural number, as character codes.
RECURSIVE Digits(_)
Digits(n) == IF n < 10 THEN <<48 + n>> ELSE Digits(n \div 10) \o <<48 + (n % 10)>>

RECURSIVE FromDigits(_)
FromDigits(s) ==
    IF s = <<>> THEN 0 ELSE 10 * FromDigits(SubSeq(s, 1, Len(s) - 1)) + (s[Len(s)] - 48)

RECURSIVE Join(_, _)
Join(parts, sep) ==
    IF parts = <<>> THEN <<>>
    ELSE IF Len(parts) = 1 THEN parts[1]
    ELSE parts[1] \o sep \o Join(Tail(parts), sep)

\* json.dumps of a string without characters to escape, of a value, and of a
\* dict key: a tuple is written as an array, an integer key as a string.
JsonString(s) == Quote \o s \o Quote
JsonValue(x) ==
    IF x.t = "int" THEN Digits(x.v[1])
    ELSE IF x.t = "str" THEN JsonString(x.v)
    ELSE IF x.t = "dict" THEN <<123, 125>>
    ELSE <<91>> \o Join([i \in 1..Len(x.v) |-> Digits(x.v[i])], ItemSep) \o <<93>>
JsonKey(k) == IF k.t = "int" THEN JsonString(Digits(k.v[1])) ELSE JsonString(k.v)

\* json.dumps(dict)
json_dumps(d) ==
    <<123>> \o Join([i \in 1..Len(d) |-> JsonKey(d[i][1]) \o KeySep \o JsonValue(d[i][2])],
                    ItemSep) \o <<125>>

\* json.loads of a text json.dumps can write: the parsers return the value
\* and the 0-based position after it, or fail.
Failed == [ok |-> FALSE, v |-> <<>>, pos |-> 0]
Parsed(v, p) == [ok |-> TRUE, v |-> v, pos |-> p]
LookingAt(t, p, s) == Slice(t, p, p + Len(s)) = s

RECURSIVE Find(_, _, _)
Find(t, p, c) == IF p >= Len(t) \/ t[p + 1] = c THEN p ELSE Find(t, p + 1, c)

RECURSIVE DigitsEnd(_, _)
DigitsEnd(t, p) == IF p < Len(t) /\ t[p + 1] \in 48..57 THEN DigitsEnd(t, p + 1) ELSE p

StringUpTo(t, p, q) == IF q >= Len(t) THEN Failed ELSE Parsed(PyStr(Slice(t, p + 1, q)), q + 1)
ParseString(t, p) ==
    IF LookingAt(t, p, Quote) THEN StringUpTo(t, p, Find(t, p + 1, Quote[1])) ELSE Failed

NumberUpTo(t, p, q) == IF q = p THEN Failed ELSE Parsed(PyInt(FromDigits(Slice(t, p, q))), q)
ParseNumber(t, p) == NumberUpTo(t, p, DigitsEnd(t, p))

RECURSIVE ParseItems(_, _, _)
AfterItem(t, item, acc) ==
    IF ~item.ok THEN Failed
    ELSE IF LookingAt(t, item.pos, <<93>>)
    THEN Parsed(PyList(Append(acc, item.v.v[1])), item.pos + 1)
    ELSE IF LookingAt(t, item.pos, ItemSep)
    THEN ParseItems(t, item.pos + Len(ItemSep), Append(acc, item.v.v[1]))
    ELSE Failed
ParseItems(t, p, acc) == AfterItem(t, ParseNumber(t, p), acc)

ParseArray(t, p) ==
    IF LookingAt(t, p, <<91, 93>>) THEN Parsed(PyList(<<>>), p + 2)
    ELSE ParseItems(t, p + 1, <<>>)

ParseValue(t, p) ==
    IF LookingAt(t, p, Quote) THEN ParseString(t, p)
    ELSE IF LookingAt(t, p, <<91>>) THEN ParseArray(t, p)
    ELSE IF LookingAt(t, p, <<123, 125>>) THEN Parsed(PyDict(<<>>), p + 2)
    ELSE ParseNumber(t, p)

\* The members of an object: a later member with the same key replaces the
\* value of the earlier one.
RECURSIVE ParseMembers(_, _, _)
AfterValue(t, key, val, d) ==
    IF ~val.ok THEN Failed
    ELSE IF LookingAt(t, val.pos, <<125>>) THEN Parsed(DictSet(d, key.v, val.v), val.pos + 1)
    ELSE IF LookingAt(t, val.pos, ItemSep)
    THEN ParseMembers(t, val.pos + Len(ItemSep), DictSet(d, key.v, val.v))
    ELSE Failed
AfterKey(t, key, d) ==
    IF ~key.ok \/ ~LookingAt(t, key.pos, KeySep) THEN Failed
    ELSE AfterValue(t, key, ParseValue(t, key.pos + Len(KeySep)), d)
ParseMembers(t, p, d) == AfterKey(t, ParseString(t, p), d)

ParseObject(t) ==
    IF LookingAt(t, 0, <<123, 125>>) THEN Parsed(<<>>, 2)
    ELSE IF LookingAt(t, 0, <<123>>) THEN ParseMembers(t, 1, <<>>)
    ELSE Failed
WholeText(t, parsed) == IF parsed.ok /\ parsed.pos = Len(t) THEN parsed ELSE Failed

\* json.loads(text)
json_loads(text) == WholeText(text, ParseObject(text))

(***************************************************************************)
(* fileio.py: the file header                                              *)
(***************************************************************************)

\* FileHeader.MAGIC_NUMBER ('%APXDF'), the size of the '<I' length field, the
\* key 'readout_uid' and the identifier of the one registered readout class.
MAGIC_NUMBER == <<37, 65, 80, 88, 68, 70>>
HEADER_LENGTH_SIZE == 4
READOUT_UID_KEY == PyStr(<<114, 101, 97, 100, 111, 117, 116, 95, 117, 105, 100>>)
AstroPix4Readout_UID == 4000
READOUT_CLASS_DICT == {AstroPix4Readout_UID}

\* FileHeader.__init__: the identifier of the readout class first, then the
\* content merged over it.
FileHeader(uid, content) ==
    [content |-> DictUpdate(<<<<READOUT_UID_KEY, PyInt(uid)>>>>, content)]

readout_uid(h) == DictGet(h.content, READOUT_UID_KEY)

\* FileHeader.serialize
serialize(h) == json_dumps(h.content)

\* fmt.uid_to_readout_class: "ok" for a registered identifier; a list cannot
\* be looked up in the dict of the classes (TypeError: unhashable).
uid_to_readout_class(uid) ==
    IF uid.t = "list" THEN "TypeError"
    ELSE IF uid.t = "int" /\ uid.v[1] \in READOUT_CLASS_DICT THEN "ok"
    ELSE "RuntimeError"

\* FileHeader.deserialize on the result of json.loads.
Loaded(parsed) ==
    IF ~parsed.ok THEN [outcome |-> "JSONDecodeError", header |-> None]
    ELSE IF ~DictHas(parsed.v, READOUT_UID_KEY) THEN [outcome |-> "KeyError", header |-> None]
    ELSE IF uid_to_readout_class(DictGet(parsed.v, READOUT_UID_KEY)) # "ok"
    THEN [outcome |-> uid_to_readout_class(DictGet(parsed.v, READOUT_UID_KEY)),
          header |-> None]
    ELSE [outcome |-> "ok",
          header |-> Some(FileHeader(DictGet(parsed.v, READOUT_UID_KEY).v[1],
                                     DictPop(parsed.v, READOUT_UID_KEY)))]

\* FileHeader.deserialize
deserialize(text) == Loaded(json_loads(text))

\* FileHeader.write: magic number, length of the content, content.
header_write(h) == MAGIC_NUMBER \o pack(Len(serialize(h)), HEADER_LENGTH_SIZE) \o serialize(h)

\* FileHeader.read, the content: pos is the position after what was read.
ReadText(f, p, n) ==
    [outcome |-> deserialize(Slice(f, p, p + n)).outcome,
     header |-> deserialize(Slice(f, p, p + n)).header,
     pos |-> p + Len(Slice(f, p, p + n))]

\* FileHeader.read on the bytes f of a file.
header_read(f) ==
    IF Slice(f, 0, Len(MAGIC_NUMBER)) # MAGIC_NUMBER
    THEN [outcome |-> "RuntimeError", header |-> None,
          pos |-> Len(Slice(f, 0, Len(MAGIC_NUMBER)))]
    ELSE IF Len(f) < Len(MAGIC_NUMBER) + HEADER_LENGTH_SIZE
    THEN [outcome |-> "struct.error", header |-> None, pos |-> Len(f)]
    ELSE ReadText(f, Len(MAGIC_NUMBER) + HEADER_LENGTH_SIZE,
                  unpack(Slice(f, Len(MAGIC_NUMBER), Len(MAGIC_NUMBER) + HEADER_LENGTH_SIZE)))

\* FileHeader.__eq__
header_eq(h1, h2) == readout_uid(h1) = readout_uid(h2) /\ DictEq(h1.content, h2.content)

\* The header of the files of the container file specification.
ApxHeader == FileHeader(AstroPix4Readout_UID, <<>>)

\* Bounds of the container file specification.
MaxReadouts == 2   \* readouts written to a file
MaxCut == 24       \* bytes cut off the end of a damaged file

\* The readout buffers written: padding only, a payload that holds the bytes
\* of the marker, and a payload with a hit.
FileBuffers == {Padding,
                <<IDLE_BYTE, 254, 220, 186, IDLE_BYTE>> \o Padding,
                <<IDLE_BYTE, IDLE_BYTE>> \o HIT_1 \o <<IDLE_BYTE, IDLE_BYTE>> \o Padding}
\* Readout ids and timestamps given by the host.
Stamps == {[readout_id |-> 0, timestamp |-> 0],
           [readout_id |-> 258, timestamp |-> 1700000000]}
\* Bytes found after the last readout of a damaged file: one byte, the first
\* two bytes of the marker, and three bytes that are not the marker.
Garbage == {<<0>>, <<254, 220>>, <<254, 220, 187>>}

\* AstroPixBinaryFile.__enter__ in mode 'wb': the header is written.
InitFile ==
    /\ DecIdle /\ HdrIdle /\ HistIdle /\ RowColIdle /\ ScanIdle
    /\ GrayIdle /\ LogIdle /\ ConvIdle /\ MonIdle /\ LoopIdle /\ TableIdle
    /\ FitIdle /\ RunIdle /\ QuadIdle /\ WindowIdle /\ LiveIdle /\ FilterIdle
    /\ file = header_write(ApxHeader) /\ written = <<>> /\ mode = "wb" /\ pos = 0
    /\ delivered = <<>> /\ lastNext = [marker |-> <<>>, outcome |-> "none"]
    /\ damaged = FALSE

\* readout.write(output_file)
WriteReadout ==
    /\ mode = "wb" /\ Len(written) < MaxReadouts
    /\ \E buf \in FileBuffers, st \in Stamps :
          LET r == Readout(buf, st.readout_id, st.timestamp) IN
          /\ file' = file \o readout_write(r)
          /\ written' = Append(written, r)
    /\ UNCHANGED <<mode, pos, delivered, lastNext, damaged, notFile>>

\* AstroPixBinaryFile.__exit__ of the writer.
CloseFile ==
    /\ mode = "wb" /\ mode' = "closed"
    /\ UNCHANGED <<file, written, pos, delivered, lastNext, damaged, notFile>>

\* The file is cut short (an interrupted copy or acquisition) or has bytes
\* that are no readout after its last readout.
DamageFile ==
    /\ mode = "closed" /\ ~damaged /\ damaged' = TRUE
    /\ \/ \E cut \in 1..MaxCut :
             /\ cut <= Len(file) - Len(header_write(ApxHeader))
             /\ file' = SubSeq(file, 1, Len(file) - cut)
       \/ \E g \in Garbage : file' = file \o g
    /\ UNCHANGED <<written, mode, pos, delivered, lastNext, notFile>>

\* AstroPixBinaryFile.__enter__ in mode 'rb': the header is read.
OpenRead ==
    /\ mode = "closed"
    /\ LET h == header_read(file) IN
       /\ mode' = IF h.outcome = "ok" THEN "rb" ELSE "fail"
       /\ pos' = h.pos
    /\ UNCHANGED <<file, written, delivered, lastNext, damaged, notFile>>

\* AstroPixBinaryFile.__next__: from_file, StopIteration on None.
NextReadout ==
    /\ mode = "rb"
    /\ LET n == from_file(file, pos) IN
       /\ pos' = n.pos
       /\ lastNext' = [marker |-> n.marker,
                       outcome |-> IF n.outcome = "None" THEN "StopIteration" ELSE n.outcome]
       /\ delivered' = IF n.outcome = "ok" THEN Append(delivered, n.readout[1]) ELSE delivered
       /\ mode' = IF n.outcome = "ok" THEN "rb"
                  ELSE IF n.outcome = "None" THEN "stop" ELSE "fail"
    /\ UNCHANGED <<file, written, damaged, notFile>>

NextFile == WriteReadout \/ CloseFile \/ DamageFile \/ OpenRead \/ NextReadout

SpecFile == InitFile /\ [][NextFile]_vars

\* The hits of a readout, as readout.decode() leaves them.
HitsOf(r) == decode(r, None).self.hits

\* Same readout id, timestamp and payload, hence the same hits.
SameReadout(r, w) ==
    /\ r.readout_id = w.readout_id /\ r.timestamp = w.timestamp /\ r.data = w.data
    /\ HitsEq(HitsOf(r), HitsOf(w))

\* C5: what is read from a file that was written and not altered is what was
\* written: at every point of the iteration the readouts delivered are the
\* first readouts written, in order, no call fails, and the iteration ends
\* exactly when all of them have been delivered.
C5_FileRoundTrip ==
    (~damaged /\ mode \in {"rb", "stop", "fail"}) =>
        /\ mode # "fail"
        /\ Len(delivered) <= Len(written)
        /\ \A i \in 1..Len(delivered) : SameReadout(delivered[i], written[i])
        /\ mode = "stop" <=> (lastNext.outcome = "StopIteration")
        /\ mode = "stop" => Len(delivered) = Len(written)
        /\ (mode = "rb" /\ Len(delivered) = Len(written)) => pos = Len(file)

\* C5 witness: two different readouts were written and read back, and the
\* iteration has ended.
C5_Witness ==
    /\ ~damaged /\ mode = "stop" /\ Len(written) = 2 /\ Len(delivered) = 2
    /\ written[1].readout_id = 258 /\ written[2].readout_id = 0
    /\ Len(HitsOf(delivered[1])) = 1

\* C6: __next__ ends the iteration if and only if no byte could be read
\* where the marker was expected; one to three bytes there that are not the
\* marker raise RuntimeError, and no readout is returned.
C6_EndOfFileOrCorruption ==
    lastNext.outcome # "none" =>
        /\ lastNext.outcome = "StopIteration" <=> Len(lastNext.marker) = 0
        /\ (Len(lastNext.marker) >= 1 /\ lastNext.marker # READOUT_HEADER) =>
               /\ lastNext.outcome = "RuntimeError"
               /\ mode = "fail"
               /\ Len(delivered) <= Len(written)
        /\ lastNext.outcome = "RuntimeError" => lastNext.marker # READOUT_HEADER

\* C6 witness: a damaged file whose last marker is cut after two bytes: the
\* readouts before it were delivered and the next call raised.
C6_Witness ==
    /\ damaged /\ mode = "fail" /\ lastNext.outcome = "RuntimeError"
    /\ lastNext.marker = <<254, 220>>
    /\ Len(delivered) = 1


(***************************************************************************)
(* A file header written to a file and read back (tests/test_fileio.py,    *)
(* test_file_header).                                                      *)
(***************************************************************************)

MaxEntries == 2    \* entries of the metadata dictionary

\* 'version', 'content', 'hits', '1' as character codes.
S_version == <<118, 101, 114, 115, 105, 111, 110>>
S_content == <<99, 111, 110, 116, 101, 110, 116>>
S_hits == <<104, 105, 116, 115>>
S_1 == <<49>>

\* The keys and the values of the metadata: strings, integers, a list and a
\* tuple of integers; the key of the readout identifier is a key like any.
MetaKeys == {PyStr(S_version), PyStr(S_content), PyStr(S_1), PyInt(1), READOUT_UID_KEY}
MetaValues == {PyInt(1), PyStr(S_hits), PyList(<<1, 2>>), PyTuple(<<1, 2>>),
               PyInt(AstroPix4Readout_UID)}

RECURSIVE Dicts(_)
Dicts(n) ==
    IF n = 0 THEN {<<>>}
    ELSE Dicts(n - 1) \cup
         {Append(d, <<k, v>>) : d \in {x \in Dicts(n - 1) : Len(x) = n - 1},
                                k \in MetaKeys, v \in MetaValues}

\* The dictionaries of at most MaxEntries entries (a dict has distinct keys).
Contents == {d \in Dicts(MaxEntries) : \A i, j \in 1..Len(d) : d[i][1] = d[j][1] => i = j}

\* header = FileHeader(AstroPix4Readout, content)
InitHeader ==
    /\ DecIdle /\ FileIdle /\ HistIdle /\ RowColIdle /\ ScanIdle
    /\ GrayIdle /\ LogIdle /\ ConvIdle /\ MonIdle /\ LoopIdle /\ TableIdle
    /\ FitIdle /\ RunIdle /\ QuadIdle /\ WindowIdle /\ LiveIdle /\ FilterIdle
    /\ hdr \in {[phase |-> "new", header |-> FileHeader(AstroPix4Readout_UID, c)] :
                   c \in Contents}

\* header.write(output_file)
WriteHeader ==
    /\ hdr.phase = "new"
    /\ hdr' = [phase |-> "written", header |-> hdr.header, bytes |-> header_write(hdr.header)]
    /\ UNCHANGED notHdr

\* twin = FileHeader.read(input_file)
ReadHeader ==
    /\ hdr.phase = "written"
    /\ hdr' = [phase |-> "read", header |-> hdr.header, bytes |-> hdr.bytes,
               outcome |-> header_read(hdr.bytes).outcome,
               twin |-> header_read(hdr.bytes).header]
    /\ UNCHANGED notHdr

NextHeader == WriteHeader \/ ReadHeader

SpecHeader == InitHeader /\ [][NextHeader]_vars

\* C7: for any registered readout class and any serializable metadata
\* dictionary, the header read back from the file is equal to the header
\* that was written (same readout identifier, same full dictionary).
C7_HeaderRoundTrips ==
    hdr.phase = "read" =>
        /\ hdr.outcome = "ok"
        /\ header_eq(hdr.twin[1], hdr.header)

(***************************************************************************)
(* hist.py: histograms.  A one-dimensional histogram with integer weights: *)
(* the arrays are sequences of integers, an array of errors (square roots) *)
(* is kept by the squares of its items.                                    *)
(***************************************************************************)

\* np.zeros(shape)
zeros(shape) == [i \in 1..shape |-> 0]

\* AbstractHistogram.__init__: the shape is the number of bins, one less than
\* the number of bin edges.
Histogram(bin_edges) ==
    [bin_edges |-> bin_edges, shape |-> Len(bin_edges) - 1,
     content |-> zeros(Len(bin_edges) - 1), sumw2 |-> zeros(Len(bin_edges) - 1)]

\* AbstractHistogram._check_array_shape: raises when the shape of the array
\* IS the shape of the histogram.
check_array_shape(h, data) == IF Len(data) = h.shape THEN "InvalidShapeError" ELSE "ok"

\* AbstractHistogram.errors: np.sqrt(self._sumw2)
errors(h) == [sq |-> h.sumw2]

\* np.sqrt(array), array * value for an array of errors, array ** 2.
Sqrt(array) == [sq |-> array]
ScaleErrors(errs, value) == [sq |-> [i \in 1..Len(errs.sq) |-> errs.sq[i] * value * value]]
Square(errs) == errs.sq

\* Elementwise sum of two arrays of the same shape, array * value.
ArraySum(x, y) == [i \in 1..Len(x) |-> x[i] + y[i]]
ArrayScale(x, value) == [i \in 1..Len(x) |-> x[i] * value]

\* AbstractHistogram.set_errors: the histogram after the call and the outcome.
set_errors(h, errs) ==
    IF check_array_shape(h, errs.sq) # "ok"
    THEN [outcome |-> check_array_shape(h, errs.sq), self |-> h]
    ELSE [outcome |-> "ok", self |-> [h EXCEPT !.sumw2 = Square(errs)]]

\* AbstractHistogram.set_content(content, errors)
set_content(h, content, errs) ==
    IF check_array_shape(h, content) # "ok"
    THEN [outcome |-> check_array_shape(h, content), self |-> h]
    ELSE set_errors([h EXCEPT !.content = content], errs)

\* AbstractHistogram.empty_copy
empty_copy(h) == Histogram(h.bin_edges)

\* What an operator returns: the new histogram, unless set_content raised.
Returned_hist(call) ==
    [outcome |-> call.outcome, hist |-> IF call.outcome = "ok" THEN Some(call.self) ELSE None]

\* AbstractHistogram.__add__
hist_add(a, b) ==
    Returned_hist(set_content(empty_copy(a), ArraySum(a.content, b.content),
                              Sqrt(ArraySum(a.sumw2, b.sumw2))))

\* AbstractHistogram.__mul__
hist_mul(a, value) ==
    Returned_hist(set_content(empty_copy(a), ArrayScale(a.content, value),
                              ScaleErrors(errors(a), value)))

\* np.histogramdd for one value: the bin of the value (the last bin holds its
\* right edge), 0 when the value is outside the edges.
BinOf(bin_edges, x) ==
    IF x < bin_edges[1] \/ x > bin_edges[Len(bin_edges)] THEN 0
    ELSE IF x = bin_edges[Len(bin_edges)] THEN Len(bin_edges) - 1
    ELSE CHOOSE i \in 1..(Len(bin_edges) - 1) : bin_edges[i] <= x /\ x < bin_edges[i + 1]

\* AbstractHistogram.fill for one value with weight w (weights=None: 1).
FillBin(h, b, w) ==
    IF b = 0 THEN h
    ELSE [h EXCEPT !.content[b] = @ + w, !.sumw2[b] = @ + w * w]
fill(h, x, weights) == FillBin(h, BinOf(h.bin_edges, x), IF weights = None THEN 1 ELSE weights[1])

(***************************************************************************)
(* Two histograms with the same binning are filled, added and scaled.      *)
(***************************************************************************)

NumBins == 2       \* bins of the histograms
MaxFills == 3      \* values filled into the two histograms

Edges == [i \in 1..(NumBins + 1) |-> i - 1]
FillValues == {-1} \cup 0..(NumBins + 1)
FillWeights == {None, Some(2)}
Scalars == {0, 2, 3}

NoOp == [op |-> "none", value |-> 0, outcome |-> "none", hist |-> None]

InitHist ==
    /\ DecIdle /\ FileIdle /\ HdrIdle /\ RowColIdle /\ ScanIdle
    /\ GrayIdle /\ LogIdle /\ ConvIdle /\ MonIdle /\ LoopIdle /\ TableIdle
    /\ FitIdle /\ RunIdle /\ QuadIdle /\ WindowIdle /\ LiveIdle /\ FilterIdle
    /\ hst = [phase |-> "live", A |-> Histogram(Edges), B |-> Histogram(Edges),
              nfills |-> 0, before |-> None, last |-> NoOp]

\* A.fill(x, weights=w) or B.fill(x, weights=w)
Fill ==
    /\ hst.phase = "live" /\ hst.nfills < MaxFills
    /\ \E x \in FillValues, w \in FillWeights :
          \/ hst' = [hst EXCEPT !.A = fill(@, x, w), !.nfills = @ + 1]
          \/ hst' = [hst EXCEPT !.B = fill(@, x, w), !.nfills = @ + 1]
    /\ UNCHANGED notHist

\* A + B
Add ==
    /\ hst.phase = "live"
    /\ hst' = [hst EXCEPT !.before = Some([A |-> hst.A, B |-> hst.B]),
                          !.last = [op |-> "add", value |-> 0,
                                    outcome |-> hist_add(hst.A, hst.B).outcome,
                                    hist |-> hist_add(hst.A, hst.B).hist]]
    /\ UNCHANGED notHist

\* A * value
Mul ==
    /\ hst.phase = "live"
    /\ \E value \in Scalars :
          hst' = [hst EXCEPT !.before = Some([A |-> hst.A, B |-> hst.B]),
                             !.last = [op |-> "mul", value |-> value,
                                       outcome |-> hist_mul(hst.A, value).outcome,
                                       hist |-> hist_mul(hst.A, value).hist]]
    /\ UNCHANGED notHist

NextHist == Fill \/ Add \/ Mul

SpecHist == InitHist /\ [][NextHist]_vars

\* C8: for two histograms A and B with identical binning, A + B is a
\* histogram whose content and squared errors are the elementwise sums, and
\* A * k is a histogram whose content is k times the content of A.
C8_HistogramArithmetic ==
    /\ (hst.phase = "live" /\ hst.last.op = "add") =>
          /\ hst.last.outcome = "ok"
          /\ hst.last.hist[1].content = ArraySum(hst.before[1].A.content, hst.before[1].B.content)
          /\ hst.last.hist[1].sumw2 = ArraySum(hst.before[1].A.sumw2, hst.before[1].B.sumw2)
    /\ (hst.phase = "live" /\ hst.last.op = "mul") =>
          /\ hst.last.outcome = "ok"
          /\ hst.last.hist[1].content = ArrayScale(hst.before[1].A.content, hst.last.value)

(***************************************************************************)
(* astropix3rowcol.py: row/column matching of AstroPix 3 half-hits.  A     *)
(* half-hit is a line of the decoded data of one chip: isCol (0 for a row, *)
(* 1 for a column), location, timestamp, tot_total.  The other columns of  *)
(* the data frame (layer, chipID, tot_us, fpga_ts) are copied to the       *)
(* matched record like these.                                              *)
(***************************************************************************)

\* A timestamp predicate that takes equal timestamps only.
fts_SameTick(x, y) == x - y = 0

\* The default predicates of rowcolmatch on (row value, column value).
fts(x, y) == x - y = 0 \/ x - y = 1
ftot(x, y) == x - y > 6 /\ x - y < 15

\* The test of a row half-hit with a column half-hit: either predicate alone
\* is enough.
Matches_Either(rowhit, colhit) ==
    fts(rowhit.timestamp, colhit.timestamp) \/ ftot(rowhit.tot_total, colhit.tot_total)

\* The test of a row half-hit with a column half-hit.
Matches(rowhit, colhit) ==
    fts(rowhit.timestamp, colhit.timestamp) /\ ftot(rowhit.tot_total, colhit.tot_total)

\* The record appended to the output for a matched pair.
MatchedRecord(rowhit, colhit) ==
    [row |-> rowhit.location, col |-> colhit.location,
     row_timestamp |-> rowhit.timestamp, col_timestamp |-> colhit.timestamp,
     row_tot |-> rowhit.tot_total, col_tot |-> colhit.tot_total]

\* An inner loop that stops at the first column after the row.
RECURSIVE ColumnLoop_FirstColumnOnly(_, _, _, _, _)
ColumnLoop_FirstColumnOnly(chip0, linenb, i, foundcol, out) ==
    IF ~(i < Len(chip0) /\ ~foundcol) THEN out
    ELSE IF chip0[i + 1].isCol = 1
    THEN ColumnLoop_FirstColumnOnly(chip0, linenb, i + 1, TRUE,
                    IF Matches(chip0[linenb + 1], chip0[i + 1])
                    THEN Append(out, MatchedRecord(chip0[linenb + 1], chip0[i + 1]))
                    ELSE out)
    ELSE ColumnLoop_FirstColumnOnly(chip0, linenb, i + 1, foundcol, out)

\* The inner loop of rowcolmatch for the row at line linenb: it runs down the
\* lines after the row until the first column, and on through the columns
\* that follow it, and tests every column it passes.
RECURSIVE ColumnLoop(_, _, _, _, _)
ColumnLoop(chip0, linenb, i, foundcol, out) ==
    IF ~(i < Len(chip0) /\ (~foundcol \/ chip0[i + 1].isCol = 1)) THEN out
    ELSE IF chip0[i + 1].isCol = 1
    THEN ColumnLoop(chip0, linenb, i + 1, TRUE,
                    IF Matches(chip0[linenb + 1], chip0[i + 1])
                    THEN Append(out, MatchedRecord(chip0[linenb + 1], chip0[i + 1]))
                    ELSE out)
    ELSE ColumnLoop(chip0, linenb, i + 1, foundcol, out)

\* The outer loop of rowcolmatch over the lines.
RECURSIVE RowLoop(_, _, _)
RowLoop(chip0, linenb, out) ==
    IF ~(linenb < Len(chip0)) THEN out
    ELSE IF chip0[linenb + 1].isCol = 0
    THEN RowLoop(chip0, linenb + 1, ColumnLoop(chip0, linenb, linenb + 1, FALSE, out))
    ELSE RowLoop(chip0, linenb + 1, out)

\* rowcolmatch(chip0) with the default predicates: the matched records.
rowcolmatch(chip0) == RowLoop(chip0, 0, <<>>)

(***************************************************************************)
(* The half-hits of a chip are read line by line, then matched.            *)
(***************************************************************************)

MaxHalfHits == 3   \* lines of the decoded data of the chip

HalfHits == [isCol : {0, 1}, location : {3}, timestamp : {5, 6, 7}, tot_total : {100, 110, 120}]

InitRowCol ==
    /\ DecIdle /\ FileIdle /\ HdrIdle /\ HistIdle /\ ScanIdle
    /\ GrayIdle /\ LogIdle /\ ConvIdle /\ MonIdle /\ LoopIdle /\ TableIdle
    /\ FitIdle /\ RunIdle /\ QuadIdle /\ WindowIdle /\ LiveIdle /\ FilterIdle
    /\ rcm = [phase |-> "read", chip0 |-> <<>>]

\* One more line of the decoded data.
ReadHalfHit ==
    /\ rcm.phase = "read" /\ Len(rcm.chip0) < MaxHalfHits
    /\ \E h \in HalfHits : rcm' = [rcm EXCEPT !.chip0 = Append(@, h)]
    /\ UNCHANGED notRowCol

\* rowcolmatch(chip0)
Match ==
    /\ rcm.phase = "read"
    /\ rcm' = [phase |-> "matched", chip0 |-> rcm.chip0, out |-> rowcolmatch(rcm.chip0)]
    /\ UNCHANGED notRowCol

NextRowCol == ReadHalfHit \/ Match

SpecRowCol == InitRowCol /\ [][NextRowCol]_vars

\* The data is one row half-hit immediately followed by one column half-hit.
RowThenCol ==
    /\ Len(rcm.chip0) = 2 /\ rcm.chip0[1].isCol = 0 /\ rcm.chip0[2].isCol = 1

S_threshold == <<116, 104, 114, 101, 115, 104, 111, 108, 100, 95>>
S_mV == <<109, 86, 95>>
S_csv == <<46, 99, 115, 118>>
S_underscore == <<95>>

FileName(threshold, tag) == S_threshold \o Digits(threshold) \o S_mV \o tag \o S_csv

\* scan._parse_file_path, the threshold:
\* int(parts[-1].split('mV')[0].replace('threshold_', ''))
parse_threshold(name) ==
    FromDigits(Slice(name, Len(S_threshold), DigitsEnd(name, Len(S_threshold))))

\* Injection_Scan_Data_Reduction: int(name.split('_')[1].rstrip('mV'))
split_threshold(name) ==
    FromDigits(rstrip(Slice(name, Find(name, 0, S_underscore[1]) + 1,
                            Find(name, Find(name, 0, S_underscore[1]) + 1, S_underscore[1])),
                      {S_mV[1], S_mV[2]}))

\* scan.process_file, the number of hits: len(tot) of the column loaded from
\* the file, and 0 on the TypeError that len raises when the file has one
\* line of data (np.loadtxt then gives a number, not an array).
process_file(f) ==
    [threshold |-> parse_threshold(f.name),
     num_hits |-> IF f.lines = 1 THEN 0 ELSE f.lines]

\* Injection_Scan_Data_Reduction: [threshold, count_lines(file_name) - 1]
threshold_counts(f) == <<split_threshold(f.name), (f.lines + 1) - 1>>

\* The order of Python strings.
RECURSIVE StrLess(_, _)
StrLess(a, b) ==
    IF a = <<>> THEN b # <<>>
    ELSE IF b = <<>> THEN FALSE
    ELSE IF a[1] # b[1] THEN a[1] < b[1]
    ELSE StrLess(Tail(a), Tail(b))

\* The permutations of 1..n, and an array indexed by an array of indices.
Perms(n) == {p \in [1..n -> 1..n] : \A i, j \in 1..n : p[i] = p[j] => i = j}
Take(array, idx) == [i \in 1..Len(idx) |-> array[idx[i]]]

\* The orders in which a directory listing can give the files of a folder.
Listings(folder) ==
    {l \in [1..Cardinality(folder) -> folder] :
        \A i, j \in 1..Cardinality(folder) : l[i] = l[j] => i = j}

\* sorted(_path.glob('*.csv'))
sorted_paths(folder) ==
    CHOOSE l \in Listings(folder) :
        \A i, j \in 1..Len(l) : i < j => StrLess(l[i].name, l[j].name)

\* np.argsort(array): an index array that sorts the array; equal items come
\* in an order that depends on the sorting algorithm.
argsort(array) ==
    {idx \in Perms(Len(array)) :
        \A i, j \in 1..Len(array) : i < j => array[idx[i]] <= array[idx[j]]}

\* The line of the summary with the counts left in the order of the files.
Summary_CountsInFileOrder(threshold, num_hits, idx) ==
    [threshold |-> Take(threshold, idx), num_hits |-> num_hits]

\* process_threshold_scan_data, the line of the summary: threshold[idx] and
\* num_hits[idx].
Summary(threshold, num_hits, idx) ==
    [threshold |-> Take(threshold, idx), num_hits |-> Take(num_hits, idx)]

(***************************************************************************)
(* Files are saved into a folder; the folder is then reduced by            *)
(* process_threshold_scan_data or by Injection_Scan_Data_Reduction.        *)
(***************************************************************************)

MaxFiles == 3      \* csv files in the folder

Thresholds == {5, 10, 100}
Tags == {<<97>>, <<98>>}
HitLines == {1, 2, 3}

InitScan ==
    /\ DecIdle /\ FileIdle /\ HdrIdle /\ HistIdle /\ RowColIdle
    /\ GrayIdle /\ LogIdle /\ ConvIdle /\ MonIdle /\ LoopIdle /\ TableIdle
    /\ FitIdle /\ RunIdle /\ QuadIdle /\ WindowIdle /\ LiveIdle /\ FilterIdle
    /\ scn = [phase |-> "scan", folder |-> {}]

\* The data acquisition saves the file of one more run.
SaveFile ==
    /\ scn.phase = "scan" /\ Cardinality(scn.folder) < MaxFiles
    /\ \E t \in Thresholds, tag \in Tags, n \in HitLines :
          /\ \A f \in scn.folder : f.name # FileName(t, tag)
          /\ scn' = [scn EXCEPT !.folder = @ \cup {[name |-> FileName(t, tag), threshold |-> t,
                                                    lines |-> n]}]
    /\ UNCHANGED notScan

\* The line process_threshold_scan_data writes for the files found, in the
\* order they were found; a folder without files is skipped.
Written(found, idx) ==
    [phase |-> "summary", folder |-> scn.folder,
     summary |-> Summary([i \in 1..Len(found) |-> process_file(found[i]).threshold],
                         [i \in 1..Len(found) |-> process_file(found[i]).num_hits], idx)]

\* process_threshold_scan_data on the folder.
ProcessThresholdScan ==
    /\ scn.phase = "scan" /\ scn.folder # {}
    /\ \E idx \in argsort([i \in 1..Cardinality(scn.folder) |->
                              process_file(sorted_paths(scn.folder)[i]).threshold]) :
          scn' = Written(sorted_paths(scn.folder), idx)
    /\ UNCHANGED notScan

\* Injection_Scan_Data_Reduction on the folder: the rows [threshold, counts]
\* of the files in the order of os.listdir, sorted by the first column.
ReduceInjection ==
    /\ scn.phase = "scan" /\ scn.folder # {}
    /\ \E file_list \in Listings(scn.folder) :
          \E idx \in argsort([i \in 1..Len(file_list) |-> threshold_counts(file_list[i])[1]]) :
             scn' = [phase |-> "reduced", folder |-> scn.folder,
                     array |-> Take([i \in 1..Len(file_list) |-> threshold_counts(file_list[i])],
                                    idx)]
    /\ UNCHANGED notScan

NextScan == SaveFile \/ ProcessThresholdScan \/ ReduceInjection

SpecScan == InitScan /\ [][NextScan]_vars

\* C10: the summary of a folder lists the thresholds in ascending order, and
\* the i-th count is the count of a file taken at the i-th threshold, every
\* file of the folder being listed once; the same for the rows of the
\* injection scan reduction.
C10_SummarySortedByThreshold ==
    /\ scn.phase = "summary" =>
          /\ \A i, j \in 1..Len(scn.summary.threshold) :
                i < j => scn.summary.threshold[i] <= scn.summary.threshold[j]
          /\ \E l \in Listings(scn.folder) :
                /\ Len(scn.summary.threshold) = Len(l) /\ Len(scn.summary.num_hits) = Len(l)
                /\ \A i \in 1..Len(l) :
                      /\ scn.summary.threshold[i] = l[i].threshold
                      /\ scn.summary.num_hits[i] = process_file(l[i]).num_hits
    /\ scn.phase = "reduced" =>
          /\ \A i, j \in 1..Len(scn.array) : i < j => scn.array[i][1] <= scn.array[j][1]
          /\ \E l \in Listings(scn.folder) :
                /\ Len(scn.array) = Len(l)
                /\ \A i \in 1..Len(l) : scn.array[i] = <<l[i].threshold, l[i].lines>>

\* A summary of files that were found in another order than that of their
\* thresholds, with different counts.
C10_Witness ==
    /\ scn.phase = "summary" /\ Len(scn.summary.threshold) >= 2
    /\ scn.summary.threshold # [i \in 1..Cardinality(scn.folder) |->
                                   sorted_paths(scn.folder)[i].threshold]
    /\ scn.summary.num_hits[1] # scn.summary.num_hits[2]

(***************************************************************************)
(* Gray code (fmt.py, gray_to_decimal)                                     *)
(***************************************************************************)

RECURSIVE BitXor(_, _)
\* Python's a ^ b on non-negative integers.
BitXor(a, b) ==
    IF a = 0 THEN b
    ELSE IF b = 0 THEN a
    ELSE (((a % 2) + (b % 2)) % 2) + 2 * BitXor(a \div 2, b \div 2)

\* The time stamps are 17 bits wide: a Gray code is below the rollover.
CLOCK_ROLLOVER == 131072

\* A conversion that folds in the first shift only.
gray_to_decimal_OneShift(gray) == BitXor(gray, gray \div 2)

RECURSIVE GrayLoop(_, _)
\* while mask: mask >>= 1; decimal ^= mask
GrayLoop(decimal, mask) ==
    IF mask = 0 THEN decimal
    ELSE GrayLoop(BitXor(decimal, mask \div 2), mask \div 2)

gray_to_decimal(gray) == GrayLoop(gray, gray)

GrayCodes == 0..(CLOCK_ROLLOVER - 1)

InitGray ==
    /\ gry = [phase |-> "gray"]
    /\ DecIdle /\ FileIdle /\ HdrIdle /\ HistIdle /\ RowColIdle /\ ScanIdle
    /\ LogIdle /\ ConvIdle /\ MonIdle /\ LoopIdle /\ TableIdle
    /\ FitIdle /\ RunIdle /\ QuadIdle /\ WindowIdle /\ LiveIdle /\ FilterIdle

Convert ==
    /\ gry.phase = "gray"
    /\ \E g \in GrayCodes :
        gry' = [phase |-> "converted", g |-> g, d |-> gray_to_decimal(g)]
    /\ UNCHANGED notGray

NextGray == Convert

SpecGray == InitGray /\ [][NextGray]_vars

\* C11: for every Gray code g below 2^17, d = gray_to_decimal(g) encodes back
\* to g: d XOR (d >> 1) = g.
C11_GrayRoundTrip ==
    gry.phase = "converted" => BitXor(gry.d, gry.d \div 2) = gry.g

\* The largest code was converted, and the conversion changed it.
C11_Witness ==
    /\ gry.phase = "converted"
    /\ gry.g = CLOCK_ROLLOVER - 1
    /\ gry.d = 87381

(***************************************************************************)
(* Legacy log files (legacy.py): text files, strings are sequences of      *)
(* character codes, the read position counts characters from 0.            *)
(***************************************************************************)

Newline == <<10>>
Tab == <<9>>
Colon == <<58>>
\* ': {', which tells a configuration line from the command-line options.
DictMark == <<58, 32, 123>>
\* "b'" and "'", the wrapper str(bytes) puts around the hex digits.
BytesPrefix == <<98, 39>>
Apostrophe == <<39>>
S_Namespace == <<78, 97, 109, 101, 115, 112, 97, 99, 101, 40>>

\* TextIO.readline at position p: the characters up to and including the
\* next newline, or up to the end of the file; '' at the end of the file.
readline(text, p) == Slice(text, p, Find(text, p, Newline[1]) + 1)

\* str.isdigit for one ASCII character.
isdigit(c) == c \in 48..57

RECURSIVE lstrip(_, _)
lstrip(s, chars) == IF Len(s) > 0 /\ s[1] \in chars THEN lstrip(Tail(s), chars) ELSE s

\* str.strip(chars)
strip(s, chars) == rstrip(lstrip(s, chars), chars)

\* sub in s
Contains(s, sub) == \E p \in 0..Len(s) : LookingAt(s, p, sub)

RECURSIVE split(_, _)
\* str.split(sep) for a one-character separator: the list of the fields.
split(s, sep) ==
    IF Find(s, 0, sep[1]) >= Len(s) THEN <<s>>
    ELSE <<Slice(s, 0, Find(s, 0, sep[1]))>> \o split(Slice(s, Find(s, 0, sep[1]) + 1, Len(s)), sep)

\* str.split(sep, 1): at most two fields.
split_once(s, sep) ==
    IF Find(s, 0, sep[1]) >= Len(s) THEN <<s>>
    ELSE <<Slice(s, 0, Find(s, 0, sep[1])), Slice(s, Find(s, 0, sep[1]) + 1, Len(s))>>

RECURSIVE remove(_, _)
\* str.replace(old, ''): every occurrence of old, left to right, is dropped.
remove(s, old) ==
    IF s = <<>> THEN <<>>
    ELSE IF LookingAt(s, 0, old) THEN remove(Slice(s, Len(old), Len(s)), old)
    ELSE <<s[1]>> \o remove(Tail(s), old)

\* int(text) raises ValueError unless the text is a decimal number (here:
\* digits only, as the readout counter is written).
IntRaises(s) == s = <<>> \/ \E i \in 1..Len(s) : ~isdigit(s[i])

\* eval of a header line.  A configuration line holds a dict display, the
\* last line an argparse.Namespace(...) call, which vars() turns into a dict;
\* anything else does not evaluate to a dict (SyntaxError, NameError, or
\* TypeError from vars()).
Blank == {32, 9}
IsDictLiteral(s) ==
    Len(strip(s, Blank)) >= 2 /\ Head(strip(s, Blank)) = 123
        /\ strip(s, Blank)[Len(strip(s, Blank))] = 125
IsNamespace(s) ==
    LookingAt(strip(s, Blank), 0, S_Namespace) /\ strip(s, Blank)[Len(strip(s, Blank))] = 41
eval_dict(s) == PyDict(strip(Slice(strip(s, Blank), 1, Len(strip(s, Blank)) - 1), Blank))
vars_eval(s) ==
    PyDict(strip(Slice(strip(s, Blank), Len(S_Namespace), Len(strip(s, Blank)) - 1), Blank))

OPTIONS_KEY == PyStr(<<111, 112, 116, 105, 111, 110, 115>>)

\* LogFileHeader.__init__, the part of one turn of the loop that parses a
\* line that is not a readout: the entry stored in the dict, or no entry
\* when eval raises.
HeaderEntry(line) ==
    IF Contains(line, DictMark)
    THEN IF IsDictLiteral(split_once(line, Colon)[2])
         THEN Some(<<PyStr(split_once(line, Colon)[1]), eval_dict(split_once(line, Colon)[2])>>)
         ELSE None
    ELSE IF IsNamespace(line) THEN Some(<<OPTIONS_KEY, vars_eval(line)>>) ELSE None

\* The constructor that forgets to seek back to the start of the readout line.
RECURSIVE LogFileHeader_NoRollback(_, _, _)
LogFileHeader_NoRollback(text, p, self) ==
    IF readline(text, p) = <<>> THEN [header |-> self, pos |-> p, outcome |-> "no data"]
    ELSE IF isdigit(readline(text, p)[1])
    THEN [header |-> self, pos |-> p + Len(readline(text, p)), outcome |-> "ok"]
    ELSE IF HeaderEntry(strip(readline(text, p), {Newline[1]})) = None
    THEN [header |-> self, pos |-> p + Len(readline(text, p)), outcome |-> "raise"]
    ELSE LogFileHeader_NoRollback(text, p + Len(readline(text, p)),
             DictSet(self, HeaderEntry(strip(readline(text, p), {Newline[1]}))[1][1],
                           HeaderEntry(strip(readline(text, p), {Newline[1]}))[1][2]))

RECURSIVE LogFileHeader(_, _, _)
\* LogFileHeader.__init__ on a file at position p, self being the dict so
\* far: the dict, the position the file is left at, and how the call ended.
LogFileHeader(text, p, self) ==
    IF readline(text, p) = <<>> THEN [header |-> self, pos |-> p, outcome |-> "no data"]
    ELSE IF isdigit(readline(text, p)[1])
    THEN [header |-> self, pos |-> p, outcome |-> "ok"]
    ELSE IF HeaderEntry(strip(readline(text, p), {Newline[1]})) = None
    THEN [header |-> self, pos |-> p + Len(readline(text, p)), outcome |-> "raise"]
    ELSE LogFileHeader(text, p + Len(readline(text, p)),
             DictSet(self, HeaderEntry(strip(readline(text, p), {Newline[1]}))[1][1],
                           HeaderEntry(strip(readline(text, p), {Newline[1]}))[1][2]))

\* AstroPixLogFile.__next__ on a file at position p: the tuple returned (or
\* the exception raised) and the position afterwards.  Unpacking the fields
\* into two names raises ValueError unless there are exactly two.
LineFields(line) == split(strip(line, {Newline[1]}), Tab)
log_next(text, p) ==
    IF readline(text, p) = <<>> THEN [outcome |-> "StopIteration", pos |-> p]
    ELSE IF Len(LineFields(readline(text, p))) # 2 \/ IntRaises(LineFields(readline(text, p))[1])
    THEN [outcome |-> "ValueError", pos |-> p + Len(readline(text, p))]
    ELSE [outcome |-> "ok", pos |-> p + Len(readline(text, p)),
          readout_id |-> FromDigits(LineFields(readline(text, p))[1]),
          readout_data |-> remove(remove(LineFields(readline(text, p))[2], BytesPrefix), Apostrophe)]

\* The log files of the model: some of the lines of the header block, then
\* the readout lines '<id>\tb'<hex>'\n' of consecutive readouts, the
\* last line with or without its newline.
MaxHeaderLines == 2
MaxDataLines == 2

\* 'iDAC: {}', 'vDAC: {}' and ' Namespace()'
HeaderLines ==
    { <<105, 68, 65, 67>> \o DictMark \o <<125>>,
      <<118, 68, 65, 67>> \o DictMark \o <<125>>,
      <<32>> \o S_Namespace \o <<41>> }

\* 'e0', 'bcbc', and 'e0b', a readout that lost its last hex digit.
HexTexts == { <<101, 48>>, <<98, 99, 98, 99>>, <<101, 48, 98>> }
FirstIds == {0, 9}

RECURSIVE SeqsUpTo(_, _)
SeqsUpTo(S, n) ==
    IF n = 0 THEN {<<>>}
    ELSE SeqsUpTo(S, n - 1)
             \cup {Append(q, x) : q \in {y \in SeqsUpTo(S, n - 1) : Len(y) = n - 1}, x \in S}

\* The line the data acquisition writes for a readout.
DataLine(readout_id, hex) ==
    Digits(readout_id) \o Tab \o BytesPrefix \o hex \o Apostrophe \o Newline

\* The text of a log file with the given header lines and readouts.
HeaderBlock(meta) == Flatten([i \in 1..Len(meta) |-> meta[i] \o Newline])
DataBlock(first, hexes) == Flatten([i \in 1..Len(hexes) |-> DataLine(first + i - 1, hexes[i])])
LogText(meta, first, hexes, newline) ==
    IF newline THEN HeaderBlock(meta) \o DataBlock(first, hexes)
    ELSE rstrip(HeaderBlock(meta) \o DataBlock(first, hexes), {Newline[1]})

InitLog ==
    /\ \E meta \in SeqsUpTo(HeaderLines, MaxHeaderLines), first \in FirstIds,
          hexes \in SeqsUpTo(HexTexts, MaxDataLines), newline \in BOOLEAN :
           lgf = [phase |-> "closed", meta |-> meta, first |-> first, hexes |-> hexes,
                  text |-> LogText(meta, first, hexes, newline)]
    /\ DecIdle /\ FileIdle /\ HdrIdle /\ HistIdle /\ RowColIdle /\ ScanIdle
    /\ GrayIdle /\ ConvIdle /\ MonIdle /\ LoopIdle /\ TableIdle
    /\ FitIdle /\ RunIdle /\ QuadIdle /\ WindowIdle /\ LiveIdle /\ FilterIdle

\* AstroPixLogFile.__enter__: the file is opened and the header parsed.
Opened(h) ==
    [phase |-> IF h.outcome = "raise" THEN "fail" ELSE "open", meta |-> lgf.meta,
     first |-> lgf.first, hexes |-> lgf.hexes, text |-> lgf.text,
     header |-> h.header, start |-> h.pos, pos |-> h.pos, yielded |-> <<>>]
OpenLog ==
    /\ lgf.phase = "closed"
    /\ lgf' = Opened(LogFileHeader(lgf.text, 0, <<>>))
    /\ UNCHANGED notLog

\* AstroPixLogFile.__next__
Yielded(n) ==
    [lgf EXCEPT !.pos = n.pos,
                !.phase = IF n.outcome = "ok" THEN "open"
                          ELSE IF n.outcome = "StopIteration" THEN "stop" ELSE "fail",
                !.yielded = IF n.outcome = "ok"
                            THEN Append(@, <<n.readout_id, n.readout_data>>) ELSE @]
NextLine ==
    /\ lgf.phase = "open"
    /\ lgf' = Yielded(log_next(lgf.text, lgf.pos))
    /\ UNCHANGED notLog

NextLog == OpenLog \/ NextLine

SpecLog == InitLog /\ [][NextLog]_vars

\* The position after the header block and the first n readout lines.
LineStart(n) ==
    IF Len(HeaderBlock(lgf.meta) \o DataBlock(lgf.first, SubSeq(lgf.hexes, 1, n))) < Len(lgf.text)
    THEN Len(HeaderBlock(lgf.meta) \o DataBlock(lgf.first, SubSeq(lgf.hexes, 1, n)))
    ELSE Len(lgf.text)

\* C12: once the header of a log file is parsed the file is left at the
\* start of the first line that begins with a digit, every header line
\* parsed and no readout line consumed; the iteration then yields one tuple
\* for every line from that one to the end of the file, in file order
\* (the readout ids are those of the lines), and nothing else.
C12_IterationStartsAtFirstReadout ==
    lgf.phase \in {"open", "stop", "fail"} =>
        /\ lgf.phase # "fail"
        /\ lgf.start = LineStart(0)
        /\ (lgf.start < Len(lgf.text) => isdigit(lgf.text[lgf.start + 1]))
        /\ Len(lgf.header) = Cardinality({lgf.meta[i] : i \in 1..Len(lgf.meta)})
        /\ Len(lgf.yielded) <= Len(lgf.hexes)
        /\ lgf.pos = LineStart(Len(lgf.yielded))
        /\ \A i \in 1..Len(lgf.yielded) : lgf.yielded[i][1] = lgf.first + i - 1
        /\ (lgf.phase = "stop" => Len(lgf.yielded) = Len(lgf.hexes))

\* A file with two header lines and two readouts was read to its end.
C12_Witness ==
    /\ lgf.phase = "stop"
    /\ Len(lgf.meta) = 2 /\ lgf.start > 0
    /\ Len(lgf.yielded) = 2
    /\ lgf.yielded[2][1] = 10

(***************************************************************************)
(* Conversion of a log file to a container file: legacy.log_to_apx and     *)
(* fileio.log_to_apx, the one the apx_log2apx program calls.               *)
(***************************************************************************)

HexDigits == (48..57) \cup (97..102) \cup (65..70)
HexValue(c) == IF c \in 48..57 THEN c - 48 ELSE IF c \in 97..102 THEN c - 87 ELSE c - 55
Whitespace == {32, 9, 10, 11, 12, 13}

RECURSIVE fromhex(_, _)
\* bytes.fromhex(s), acc being the bytes so far: two hex digits make a byte,
\* white space between the bytes is skipped, anything else is a ValueError.
fromhex(s, acc) ==
    IF s = <<>> THEN [ok |-> TRUE, v |-> acc]
    ELSE IF s[1] \in Whitespace THEN fromhex(Tail(s), acc)
    ELSE IF Len(s) >= 2 /\ s[1] \in HexDigits /\ s[2] \in HexDigits
    THEN fromhex(Slice(s, 2, Len(s)), Append(acc, 16 * HexValue(s[1]) + HexValue(s[2])))
    ELSE [ok |-> FALSE, v |-> acc]

\* What a conversion has done so far: the bytes of the output file, the
\* number of readouts written, the readouts warned about.
Started(header) ==
    [outcome |-> "run", out |-> header_write(header), num_readouts |-> 0, warnings |-> <<>>,
     is_data |-> FALSE]
WriteRecord(c, data, readout_id) ==
    [c EXCEPT !.out = @ \o readout_write(Readout(data, readout_id, 0)),
              !.num_readouts = @ + 1]

RECURSIVE LegacyLoop(_, _, _)
\* legacy.log_to_apx, the body of the loop for the tuple n that __next__
\* returned: a readout bytes.fromhex cannot read is warned about and skipped.
LegacyBody(text, n, c) ==
    IF fromhex(n.readout_data, <<>>).ok
    THEN LegacyLoop(text, n.pos, WriteRecord(c, fromhex(n.readout_data, <<>>).v, n.readout_id))
    ELSE LegacyLoop(text, n.pos, [c EXCEPT !.warnings = Append(@, n.readout_id)])
LegacyStep(text, n, c) ==
    IF n.outcome = "StopIteration" THEN [c EXCEPT !.outcome = "ok"]
    ELSE IF n.outcome # "ok" THEN [c EXCEPT !.outcome = n.outcome]
    ELSE LegacyBody(text, n, c)
LegacyLoop(text, p, c) == LegacyStep(text, log_next(text, p), c)

\* legacy.log_to_apx on the text of the log file: the header of the log goes
\* into the header of the output file.
LegacyConvert(text, h) ==
    IF h.outcome = "raise" THEN [outcome |-> "raise", out |-> <<>>, num_readouts |-> 0,
                                 warnings |-> <<>>, is_data |-> FALSE]
    ELSE LegacyLoop(text, h.pos, Started(FileHeader(AstroPix4Readout_UID, h.header)))
legacy_log_to_apx(text) == LegacyConvert(text, LogFileHeader(text, 0, <<>>))

\* fileio.log_to_apx: '0\t' at the start of a line marks the first readout.
FirstReadoutMark == <<48, 9>>
EndOfBytes == <<39, 10>>
FileioData(line) == remove(remove(split(line, Tab)[2], BytesPrefix), EndOfBytes)

RECURSIVE FileioLoop(_, _, _)
\* fileio.log_to_apx, the body of the loop for one line: nothing catches the
\* ValueError of the unpacking, of int() or of bytes.fromhex.
FileioBody(text, p, line, c) ==
    IF ~c.is_data THEN FileioLoop(text, p + Len(line), c)
    ELSE IF Len(split(line, Tab)) # 2 \/ IntRaises(split(line, Tab)[1])
    THEN [c EXCEPT !.outcome = "ValueError"]
    ELSE IF ~fromhex(FileioData(line), <<>>).ok THEN [c EXCEPT !.outcome = "ValueError"]
    ELSE FileioLoop(text, p + Len(line),
             WriteRecord(c, fromhex(FileioData(line), <<>>).v, FromDigits(split(line, Tab)[1])))
FileioLine(text, p, line, c) ==
    FileioBody(text, p, line,
               [c EXCEPT !.is_data = @ \/ LookingAt(line, 0, FirstReadoutMark)])
FileioLoop(text, p, c) ==
    IF readline(text, p) = <<>> THEN [c EXCEPT !.outcome = "ok"]
    ELSE FileioLine(text, p, readline(text, p), c)

fileio_log_to_apx(text) == FileioLoop(text, 0, Started(FileHeader(AstroPix4Readout_UID, <<>>)))

\* The readouts of the logs converted: the bytes captured, and whether the
\* line lost its last hex digit when it was written.
HexChar(n) == IF n < 10 THEN 48 + n ELSE 87 + n
hexlify(data) == Flatten([i \in 1..Len(data) |-> <<HexChar(data[i] \div 16), HexChar(data[i] % 16)>>])
Payloads == { <<224>>, <<188, 188>>, <<224, 171>>, <<224, 255>> }
LoggedReadouts == [data : Payloads, truncated : BOOLEAN]
LoggedHex(r) ==
    IF r.truncated THEN SubSeq(hexlify(r.data), 1, 2 * Len(r.data) - 1) ELSE hexlify(r.data)

InitConv ==
    /\ \E meta \in SeqsUpTo(HeaderLines, MaxHeaderLines), first \in FirstIds,
          readouts \in SeqsUpTo(LoggedReadouts, MaxDataLines), newline \in BOOLEAN :
           cnv = [phase |-> "log", meta |-> meta, first |-> first, readouts |-> readouts,
                  text |-> LogText(meta, first, [i \in 1..Len(readouts) |-> LoggedHex(readouts[i])],
                                   newline)]
    /\ DecIdle /\ FileIdle /\ HdrIdle /\ HistIdle /\ RowColIdle /\ ScanIdle
    /\ GrayIdle /\ LogIdle /\ MonIdle /\ LoopIdle /\ TableIdle
    /\ FitIdle /\ RunIdle /\ QuadIdle /\ WindowIdle /\ LiveIdle /\ FilterIdle

Converted(function, result) ==
    [phase |-> "converted", meta |-> cnv.meta, first |-> cnv.first, readouts |-> cnv.readouts,
     text |-> cnv.text, function |-> function, result |-> result]

\* legacy.log_to_apx(input_file_path)
LegacyLogToApx ==
    /\ cnv.phase = "log"
    /\ cnv' = Converted("legacy", legacy_log_to_apx(cnv.text))
    /\ UNCHANGED notConv

\* fileio.log_to_apx(input_file_path), as run by apx_log2apx
FileioLogToApx ==
    /\ cnv.phase = "log"
    /\ cnv' = Converted("fileio", fileio_log_to_apx(cnv.text))
    /\ UNCHANGED notConv

NextConv == LegacyLogToApx \/ FileioLogToApx

SpecConv == InitConv /\ [][NextConv]_vars

RECURSIVE ReadRecords(_, _, _)
\* The readouts of a container file from position p on, read with from_file.
ReadRecords(f, p, acc) ==
    IF from_file(f, p).outcome = "ok"
    THEN ReadRecords(f, from_file(f, p).pos, Append(acc, from_file(f, p).readout[1]))
    ELSE [outcome |-> from_file(f, p).outcome, records |-> acc]

RECURSIVE ValidReadouts(_, _, _)
\* The readouts of the lines whose hex text is complete, in log order.
ValidReadouts(first, readouts, i) ==
    IF i > Len(readouts) THEN <<>>
    ELSE (IF readouts[i].truncated THEN <<>>
          ELSE <<Readout(readouts[i].data, first + i - 1, 0)>>)
         \o ValidReadouts(first, readouts, i + 1)

SkippedIds(first, readouts) ==
    SelectSeq([i \in 1..Len(readouts) |-> first + i - 1],
              LAMBDA id : readouts[id - first + 1].truncated)

\* C13: a conversion runs to its end whatever the lines hold; the output
\* file has a header that reads back and then, in log order, exactly one
\* readout (the id of the line, time stamp 0, the bytes of the line) for
\* every line whose hex text is complete and none for a line that lost its
\* last hex digit, each of which is warned about; a log without readout
\* lines gives a file with the header and no readout.
C13_OddHexLineSkipped ==
    cnv.phase = "converted" =>
        /\ cnv.result.outcome = "ok"
        /\ header_read(cnv.result.out).outcome = "ok"
        /\ ReadRecords(cnv.result.out, header_read(cnv.result.out).pos, <<>>)
               = [outcome |-> "None", records |-> ValidReadouts(cnv.first, cnv.readouts, 1)]
        /\ cnv.result.warnings = SkippedIds(cnv.first, cnv.readouts)

(***************************************************************************)
(* The monitor (monitor.py): the listener thread puts the readouts it      *)
(* receives on a queue, the display loop of the main thread takes them     *)
(* from the queue and processes them.                                      *)
(***************************************************************************)

MaxPackets == 3    \* datagrams the receiver gets while the monitor runs

\* Readouts sent to the monitor: one hit, two hits, and an empty readout.
MonitorBuffers ==
    { HIT_1 \o <<IDLE_BYTE, IDLE_BYTE>>,
      HIT_1 \o HIT_1 \o <<IDLE_BYTE, IDLE_BYTE>>,
      <<>> }

\* queue.Queue.put with the item at the wrong end.
queue_put_Front(q, item) == <<item>> \o q

\* queue.Queue.put and queue.Queue.get on an unbounded queue: either call
\* holds the lock of the queue for the whole of its change.
queue_put(q, item) == Append(q, item)
queue_get(q) == [item |-> Head(q), queue |-> Tail(q)]

\* AstroPix4SimpleMonitor.process_readout: the readout is decoded without
\* extra bytes and every hit is filled into the histograms.
process_readout(readout) == decode(readout, None)

\* readout.hits(): the hits of the decoded readout.
hits(readout) == readout.hits

\* AbstractMonitor.__init__ and the start of start(): an empty queue, the
\* counters at zero, the listener thread started, the display loop entered.
InitMon ==
    /\ mon = [phase |-> "run", lpc |-> "receive", dpc |-> "get",
              received |-> <<>>, held |-> None, queue |-> <<>>, hand |-> None,
              processed |-> <<>>, num_processed_readouts |-> 0, num_processed_hits |-> 0,
              displayed |-> 0]
    /\ DecIdle /\ FileIdle /\ HdrIdle /\ HistIdle /\ RowColIdle /\ ScanIdle
    /\ GrayIdle /\ LogIdle /\ ConvIdle /\ LoopIdle /\ TableIdle
    /\ FitIdle /\ RunIdle /\ QuadIdle /\ WindowIdle /\ LiveIdle /\ FilterIdle

\* _listen: self._receiver.receive() returns the readout of a datagram.
Receive ==
    /\ mon.lpc = "receive" /\ Len(mon.received) < MaxPackets
    /\ \E data \in MonitorBuffers :
          mon' = [mon EXCEPT !.received = Append(@, Readout(data, Len(@) + 1, 0)),
                             !.held = Some(Readout(data, Len(mon.received) + 1, 0)),
                             !.lpc = "put"]
    /\ UNCHANGED notMon

\* _listen: self._readout_buffer.put(...)
Put ==
    /\ mon.lpc = "put"
    /\ mon' = [mon EXCEPT !.queue = queue_put(@, mon.held[1]), !.held = None,
                          !.lpc = "receive"]
    /\ UNCHANGED notMon

\* start: self._readout_buffer.get(timeout=read_timeout) returns a readout.
Get ==
    /\ mon.dpc = "get" /\ mon.queue # <<>>
    /\ mon' = [mon EXCEPT !.hand = Some(queue_get(mon.queue).item),
                          !.queue = queue_get(mon.queue).queue, !.dpc = "process"]
    /\ UNCHANGED notMon

\* start: process_readout(readout) and the two counters; an exception of
\* process_readout leaves the loop and start().
Processed(d) ==
    IF d.outcome = "ok"
    THEN [mon EXCEPT !.processed = Append(@, mon.hand[1]), !.hand = None, !.dpc = "get",
                     !.num_processed_readouts = @ + 1,
                     !.num_processed_hits = @ + Len(hits(d.self))]
    ELSE [mon EXCEPT !.processed = Append(@, mon.hand[1]), !.hand = None, !.dpc = "raised"]
Process ==
    /\ mon.dpc = "process"
    /\ mon' = Processed(process_readout(mon.hand[1]))
    /\ UNCHANGED notMon

\* start: the refresh interval is over (after a readout, or after get timed
\* out on an empty queue).
Elapse ==
    /\ mon.dpc = "get"
    /\ mon' = [mon EXCEPT !.dpc = "update"]
    /\ UNCHANGED notMon

\* start: update_display() and plt.pause()
UpdateDisplay ==
    /\ mon.dpc = "update"
    /\ mon' = [mon EXCEPT !.dpc = "get", !.displayed = mon.num_processed_readouts]
    /\ UNCHANGED notMon

\* start: KeyboardInterrupt in the main thread, caught around the loop.
InterruptMonitor ==
    /\ mon.dpc \in {"get", "process", "update"}
    /\ mon' = [mon EXCEPT !.dpc = "done"]
    /\ UNCHANGED notMon

NextMon == Receive \/ Put \/ Get \/ Process \/ Elapse \/ UpdateDisplay \/ InterruptMonitor

SpecMon == InitMon /\ [][NextMon]_vars

\* The readouts between the receiver and process_readout, oldest first.
InFlight == mon.hand \o mon.queue \o mon.held

\* C14: in every interleaving of the listener and the display loop the
\* readouts passed to process_readout, followed by those still on their way
\* (taken from the queue, on the queue, about to be put), are the readouts
\* the receiver returned, each once and in the order of receipt; the display
\* loop waiting on an empty queue has processed everything that was put.
C14_EachReadoutProcessedOnceInOrder ==
    mon.phase = "run" =>
        /\ mon.processed \o InFlight = mon.received
        /\ (mon.dpc \in {"get", "process", "update"}
               => mon.num_processed_readouts = Len(mon.processed))
        /\ \A i \in 1..Len(mon.received) : mon.received[i].readout_id = i

\* Two readouts were processed while the third waits on the queue and the
\* display loop is about to take it.
C14_Witness ==
    /\ mon.phase = "run" /\ mon.dpc = "get"
    /\ Len(mon.processed) = 2 /\ Len(mon.queue) = 1
    /\ mon.num_processed_hits = 3

(***************************************************************************)
(* The long-running programs and Ctrl-C: the monitor (monitor.py, start),  *)
(* the live decoder (Live_Decoder_and_Plotter.py, main), apx_udpsend and   *)
(* apx_udpreceive.  A program is at a position of its main function; the   *)
(* KeyboardInterrupt is raised in the main thread at whatever position the *)
(* program is at, and is caught only inside a try block that names it.     *)
(***************************************************************************)

MaxTurns == 3      \* turns of a loop
MaxNewLines == 2   \* lines the live decoder finds in the log at a time
MaxToSend == 2     \* readouts of the file apx_udpsend sends

Programs == {"monitor", "live", "udpsend", "udpreceive"}

\* The positions inside `try: ... except KeyboardInterrupt`.
InTry(program, pc) ==
    \/ program = "monitor" /\ pc = "loop"
    \/ program = "live" /\ pc = "body"
    \/ program = "udpsend" /\ pc \in {"enter", "loop"}
    \/ program = "udpreceive" /\ pc = "loop"

InitLoop ==
    /\ \E program \in Programs :
           lps = [phase |-> "run", program |-> program, pc |-> "setup", files |-> {},
                  interrupted |-> FALSE, how |-> "running", continue_bool |-> TRUE,
                  turns |-> 0, rows |-> 0, left |-> 0]
    /\ DecIdle /\ FileIdle /\ HdrIdle /\ HistIdle /\ RowColIdle /\ ScanIdle
    /\ GrayIdle /\ LogIdle /\ ConvIdle /\ MonIdle /\ TableIdle
    /\ FitIdle /\ RunIdle /\ QuadIdle /\ WindowIdle /\ LiveIdle /\ FilterIdle

At(program, pc) == lps.phase = "run" /\ lps.program = program /\ lps.pc = pc
Ended == [lps EXCEPT !.pc = "ended", !.how = "clean"]

\* monitor.start: setup(), start_listening(), read_timeout, then the loop.
MonitorSetup ==
    /\ At("monitor", "setup")
    /\ lps' = [lps EXCEPT !.pc = "loop"]
    /\ UNCHANGED notLoop

\* monitor.start: one refresh interval of the display loop.
MonitorTurn ==
    /\ At("monitor", "loop") /\ lps.turns < MaxTurns
    /\ lps' = [lps EXCEPT !.turns = @ + 1]
    /\ UNCHANGED notLoop

\* Live decoder, main: the lines of the log are read and the CSV file opened.
LiveOpenCsv ==
    /\ At("live", "setup")
    /\ lps' = [lps EXCEPT !.pc = "initial", !.files = @ \cup {"csv"}]
    /\ UNCHANGED notLoop

\* Live decoder: the header row and the lines found at the start are written,
\* the figure is set up.
LiveInitialDecode ==
    /\ At("live", "initial")
    /\ \E n \in 0..MaxNewLines : lps' = [lps EXCEPT !.pc = "test", !.rows = 1 + n]
    /\ UNCHANGED notLoop

\* Live decoder: while continue_bool
LiveTest ==
    /\ At("live", "test")
    /\ lps' = [lps EXCEPT !.pc = IF lps.continue_bool THEN "body" ELSE "closing"]
    /\ UNCHANGED notLoop

\* Live decoder: the try block: sleep, read the new lines, decode and write
\* them, update the plots.
LiveBody ==
    /\ At("live", "body") /\ lps.turns < MaxTurns
    /\ \E n \in 0..MaxNewLines :
          lps' = [lps EXCEPT !.pc = "test", !.turns = @ + 1, !.rows = @ + n]
    /\ UNCHANGED notLoop

\* Live decoder: except KeyboardInterrupt: continue_bool = False
LiveHandler ==
    /\ At("live", "handler")
    /\ lps' = [lps EXCEPT !.pc = "test", !.continue_bool = FALSE]
    /\ UNCHANGED notLoop

\* Live decoder: plt.ioff(); csv_write_file.close()
LiveClose ==
    /\ At("live", "closing")
    /\ lps' = [lps EXCEPT !.pc = "show", !.files = @ \ {"csv"}]
    /\ UNCHANGED notLoop

\* Live decoder: plt.show() returns when the window is closed.
LiveShow ==
    /\ At("live", "show")
    /\ lps' = Ended
    /\ UNCHANGED notLoop

\* apx_udpsend.main: the path and the sender, before the try block.
SendSetup ==
    /\ At("udpsend", "setup")
    /\ lps' = [lps EXCEPT !.pc = "enter"]
    /\ UNCHANGED notLoop

\* apx_udpsend.main: with apx_open(file_path) as input_file
SendEnter ==
    /\ At("udpsend", "enter")
    /\ \E n \in 0..MaxToSend :
          lps' = [lps EXCEPT !.pc = "loop", !.files = @ \cup {"apx"}, !.left = n]
    /\ UNCHANGED notLoop

\* apx_udpsend.main: a readout is sent, then time.sleep
SendReadout ==
    /\ At("udpsend", "loop") /\ lps.left > 0
    /\ lps' = [lps EXCEPT !.left = @ - 1, !.turns = @ + 1]
    /\ UNCHANGED notLoop

\* apx_udpsend.main: the end of the file ends the loop, __exit__ closes it.
SendEnd ==
    /\ At("udpsend", "loop") /\ lps.left = 0
    /\ lps' = [Ended EXCEPT !.files = @ \ {"apx"}]
    /\ UNCHANGED notLoop

\* apx_udpreceive.main: the receiver, before the try block.
ReceiveSetup ==
    /\ At("udpreceive", "setup")
    /\ lps' = [lps EXCEPT !.pc = "loop"]
    /\ UNCHANGED notLoop

\* apx_udpreceive.main: a readout is received, printed and decoded.
ReceiveTurn ==
    /\ At("udpreceive", "loop") /\ lps.turns < MaxTurns
    /\ lps' = [lps EXCEPT !.turns = @ + 1]
    /\ UNCHANGED notLoop

\* Ctrl-C: inside a try block the handler is entered (leaving a with block
\* closes its file on the way); anywhere else the KeyboardInterrupt leaves
\* main and the program ends with a traceback, its files as they were.
Interrupted ==
    IF InTry(lps.program, lps.pc)
    THEN [lps EXCEPT !.interrupted = TRUE,
                     !.pc = IF lps.program = "live" THEN "handler" ELSE "bye",
                     !.files = IF lps.program = "udpsend" THEN @ \ {"apx"} ELSE @]
    ELSE [lps EXCEPT !.interrupted = TRUE, !.pc = "ended", !.how = "error"]
Interrupt ==
    /\ lps.phase = "run" /\ lps.how = "running" /\ ~lps.interrupted
    /\ lps' = Interrupted
    /\ UNCHANGED notLoop

\* except KeyboardInterrupt: print('Done, bye!')
Bye ==
    /\ lps.phase = "run" /\ lps.pc = "bye"
    /\ lps' = Ended
    /\ UNCHANGED notLoop

NextLoop ==
    \/ MonitorSetup \/ MonitorTurn
    \/ LiveOpenCsv \/ LiveInitialDecode \/ LiveTest \/ LiveBody \/ LiveHandler
    \/ LiveClose \/ LiveShow
    \/ SendSetup \/ SendEnter \/ SendReadout \/ SendEnd
    \/ ReceiveSetup \/ ReceiveTurn
    \/ Interrupt \/ Bye

SpecLoop == InitLoop /\ [][NextLoop]_vars

\* C15: a program that was interrupted, at whatever point, has ended without
\* the KeyboardInterrupt leaving it as an error, and with every file it had
\* opened closed.
C15_InterruptEndsLoopCleanly ==
    (lps.phase = "run" /\ lps.interrupted /\ lps.pc = "ended") =>
        lps.how = "clean" /\ lps.files = {}

(***************************************************************************)
(* The start byte of a hit: every byte value at the three places where the *)
(* decoder asks is_valid_start_byte.                                       *)
(***************************************************************************)

\* The seven bytes of a hit after its start byte (none of them 111xxxxx).
PAYLOAD == Tail(HIT_1)
AnyByte == 0..255
Places == {"expected", "orphan", "inner"}

\* A readout with the byte b where a hit is expected (after a first hit),
\* after an orphan byte, and inside the window of a hit that is followed by
\* bytes that are no start byte.
StartByteBuffer(b, place) ==
    IF place = "expected" THEN HIT_1 \o <<b>> \o PAYLOAD \o <<IDLE_BYTE, IDLE_BYTE>>
    ELSE IF place = "orphan" THEN <<1, b>> \o PAYLOAD \o <<IDLE_BYTE, IDLE_BYTE>>
    ELSE <<224, 80, 66, b, 6, 32, 215, 1>> \o <<1, 2, 3, IDLE_BYTE, IDLE_BYTE>>

InitStartByte ==
    /\ \E b \in AnyByte, place \in Places :
          /\ scen = [kind |-> "startbyte", byte |-> b, place |-> place]
          /\ ro = [A |-> Readout(StartByteBuffer(b, place), 0, 0), B |-> Readout(<<>>, 0, 0)]
    /\ res = [A |-> NoCall, B |-> NoCall]
    /\ FileIdle /\ HdrIdle /\ HistIdle /\ RowColIdle /\ ScanIdle
    /\ GrayIdle /\ LogIdle /\ ConvIdle /\ MonIdle /\ LoopIdle /\ TableIdle
    /\ FitIdle /\ RunIdle /\ QuadIdle /\ WindowIdle /\ LiveIdle /\ FilterIdle

NextStartByte == DecodeCall("A", None)

SpecStartByte == InitStartByte /\ [][NextStartByte]_vars

\* The decoder took the byte of the scenario for the start byte of a hit: it
\* is marked as the start of a hit, or the bytes in front of it were dropped.
TakenForStartByte ==
    IF scen.place = "expected" THEN ro.A.mask[HIT_SIZE + 1] = BT_HIT_START
    ELSE IF scen.place = "orphan" THEN ro.A.mask[2] = BT_HIT_START
    ELSE INCOMPLETE_DATA_DROPPED \in ro.A.status

\* C16 as stated: the decoder takes a byte for a start byte if and only if it
\* is 0xE0, where a hit is expected, after orphan bytes and inside a hit.
C16_StartByteIsE0Only ==
    (scen.kind = "startbyte" /\ res.A.ncalls > 0) => (TakenForStartByte <=> scen.byte = 224)

\* C16 amended: the decoder takes a byte for a start byte if and only if it
\* is of the form 111xxxxx (0xE0..0xFE, the chip id in the low bits) and is
\* not the padding byte 0xFF.
C16_StartByteIsAnyChipId ==
    (scen.kind = "startbyte" /\ res.A.ncalls > 0) =>
        (TakenForStartByte <=> (scen.byte \in 224..254))

\* 0xE5, the start byte of chip 5, was taken for a start byte where a hit
\* was expected, and the hit was recorded.
C16_Witness ==
    /\ scen.kind = "startbyte" /\ scen.byte = 229 /\ scen.place = "expected"
    /\ res.A.ncalls > 0 /\ res.A.outcome = "ok"
    /\ Len(ro.A.hits) = 2 /\ TakenForStartByte

(***************************************************************************)
(* A start byte inside the 8-byte word of a hit.                           *)
(***************************************************************************)

MaxIdle == 2       \* idle bytes between the word and what follows it

InnerOffsets == 1..(HIT_SIZE - 1)

\* HIT_1 with a second start byte at the (0-based) offset k.
InnerWindow(k) == [i \in 1..HIT_SIZE |-> IF i = k + 1 THEN 224 ELSE HIT_1[i]]

\* What follows the word and its idle bytes: nothing, a hit, the rest of a
\* hit that was cut at the end of the readout, or bytes that are no hit.
InnerTails == {<<>>, HIT_1, <<32>>, <<32, 215, 1>>, <<1, 2, 3, 4, 5, 6, 7, 8>>}

InitInner ==
    /\ \E k \in InnerOffsets, n \in 0..MaxIdle, tail \in InnerTails :
          /\ scen = [kind |-> "inner", k |-> k, idle |-> n, tail |-> tail]
          /\ ro = [A |-> Readout(InnerWindow(k) \o Idles(n) \o tail, 0, 0),
                   B |-> Readout(<<>>, 0, 0)]
    /\ res = [A |-> NoCall, B |-> NoCall]
    /\ FileIdle /\ HdrIdle /\ HistIdle /\ RowColIdle /\ ScanIdle
    /\ GrayIdle /\ LogIdle /\ ConvIdle /\ MonIdle /\ LoopIdle /\ TableIdle
    /\ FitIdle /\ RunIdle /\ QuadIdle /\ WindowIdle /\ LiveIdle /\ FilterIdle

NextInner == DecodeCall("A", None)

SpecInner == InitInner /\ [][NextInner]_vars

\* The first byte after the word and the idle bytes that follow it exists
\* and is not a valid start byte.
FollowedByNoStartByte(data) ==
    LET forward_cursor == SkipWhile(data, HIT_SIZE, {IDLE_BYTE})
    IN  /\ forward_cursor < Len(data)
        /\ ~is_valid_start_byte(Slice(data, forward_cursor, forward_cursor + 1))

\* The first hit of the readout was built from these 8 bytes.
FirstHitIs(r, bytes) ==
    /\ Len(bytes) = HIT_SIZE
    /\ Len(r.hits) >= 1
    /\ r.hits[1].data = reverse_bit_order(bytes)

\* C17: with a valid start byte at offset k (1..7) of the 8-byte word at the
\* cursor, when the first byte after the word and its idle bytes exists and
\* is no valid start byte, the k bytes are dropped, INCOMPLETE_DATA_DROPPED is
\* set and the hit is the 8 bytes from the inner start byte; otherwise the
\* word itself is the hit and INCOMPLETE_DATA_DROPPED is not set.
C17_InnerStartByteDecidesDrop ==
    (scen.kind = "inner" /\ res.A.ncalls > 0) =>
        /\ res.A.outcome = "ok"
        /\ IF FollowedByNoStartByte(ro.A.data)
           THEN /\ INCOMPLETE_DATA_DROPPED \in ro.A.status
                /\ \A i \in 1..scen.k : ro.A.mask[i] = BT_DROPPED
                /\ FirstHitIs(ro.A, Slice(ro.A.data, scen.k, scen.k + HIT_SIZE))
           ELSE /\ INCOMPLETE_DATA_DROPPED \notin ro.A.status
                /\ FirstHitIs(ro.A, Slice(ro.A.data, 0, HIT_SIZE))

\* The same with room for a whole hit after the inner start byte and with
\* something after the word.
InnerStartByteWithRoom ==
    (scen.kind = "inner" /\ res.A.ncalls > 0
       /\ Len(ro.A.data) > HIT_SIZE /\ Len(ro.A.data) >= scen.k + HIT_SIZE) =>
        /\ res.A.outcome = "ok"
        /\ IF FollowedByNoStartByte(ro.A.data)
           THEN /\ INCOMPLETE_DATA_DROPPED \in ro.A.status
                /\ \A i \in 1..scen.k : ro.A.mask[i] = BT_DROPPED
                /\ FirstHitIs(ro.A, Slice(ro.A.data, scen.k, scen.k + HIT_SIZE))
           ELSE /\ INCOMPLETE_DATA_DROPPED \notin ro.A.status
                /\ FirstHitIs(ro.A, Slice(ro.A.data, 0, HIT_SIZE))

(***************************************************************************)
(* Extra bytes at the end of a readout.                                    *)
(***************************************************************************)

\* The bytes of the readout that decode marked as extra bytes (the first of
\* them is marked as a hit start when it is a valid start byte).
ExtraMarked(r) ==
    Cardinality({i \in 1..Len(r.mask) : r.mask[i] = BT_EXTRA})
        + (IF VALID_EXTRA_BYTES \in r.status THEN 1 ELSE 0)

\* C18: bytes at the end of a readout are classified as extra bytes only when
\* fewer than 8 bytes remain (a whole hit at the very end is recorded as a
\* hit), and extra_bytes(), when set, is strictly shorter than 8 bytes.
C18_ExtraBytesShorterThanHit ==
    (scen.kind = "single" /\ res.A.ncalls > 0) =>
        /\ ({VALID_EXTRA_BYTES, INVALID_EXTRA_BYTES} \cap ro.A.status # {}
               => ExtraMarked(ro.A) < HIT_SIZE)
        /\ (ro.A.extra # None => Len(ro.A.extra[1]) < HIT_SIZE)

(***************************************************************************)
(* Decoding a stream of readouts: AstroPixBinaryFile.to_table and the       *)
(* monitor's process_readout                                               *)
(***************************************************************************)

Consumers == {"to_table", "monitor"}
HitCuts == 1..(HIT_SIZE - 1)

\* Two consecutive readouts with HIT_CHIP5 cut after its first `cut` bytes.
SplitStream(pre, cut, post) ==
    <<pre \o Slice(HIT_CHIP5, 0, cut), Slice(HIT_CHIP5, cut, HIT_SIZE) \o post>>

InitTable ==
    /\ \E consumer \in Consumers, cut \in HitCuts, pre \in SplitPre, post \in SplitPost :
          tbl = [phase |-> "run", consumer |-> consumer, cut |-> cut,
                 stream |-> SplitStream(pre, cut, post), n |-> 0, rows |-> <<>>,
                 extra |-> <<>>]
    /\ DecIdle /\ FileIdle /\ HdrIdle /\ HistIdle /\ RowColIdle /\ ScanIdle
    /\ GrayIdle /\ LogIdle /\ ConvIdle /\ MonIdle /\ LoopIdle
    /\ FitIdle /\ RunIdle /\ QuadIdle /\ WindowIdle /\ LiveIdle /\ FilterIdle

\* The rows (the fills) of the hits of one decoded readout, or the exception
\* of the decode call.  extra keeps what extra_bytes() of each readout holds
\* after its decode.
Consumed(d) ==
    /\ tbl' = IF d.outcome = "ok"
              THEN [tbl EXCEPT !.n = @ + 1, !.rows = @ \o d.ret[1],
                               !.extra = Append(@, d.self.extra)]
              ELSE [tbl EXCEPT !.phase = "raised"]
    /\ UNCHANGED notTable

\* to_table, one turn of `for readout in self`: hits = readout.decode(), one
\* table row for each hit.
ToTableReadout ==
    /\ tbl.phase = "run" /\ tbl.consumer = "to_table" /\ tbl.n < Len(tbl.stream)
    /\ Consumed(decode(Readout(tbl.stream[tbl.n + 1], tbl.n, 0), None))

\* to_table, after the last readout of the file: the table is returned.
ToTableReturn ==
    /\ tbl.phase = "run" /\ tbl.consumer = "to_table" /\ tbl.n = Len(tbl.stream)
    /\ tbl' = [tbl EXCEPT !.phase = "done"]
    /\ UNCHANGED notTable

\* The monitor, process_readout on the next readout of the stream.
MonitorReadout ==
    /\ tbl.phase = "run" /\ tbl.consumer = "monitor" /\ tbl.n < Len(tbl.stream)
    /\ Consumed(process_readout(Readout(tbl.stream[tbl.n + 1], tbl.n, 0)))

\* The monitor has processed every readout that was sent.
MonitorDrained ==
    /\ tbl.phase = "run" /\ tbl.consumer = "monitor" /\ tbl.n = Len(tbl.stream)
    /\ tbl' = [tbl EXCEPT !.phase = "done"]
    /\ UNCHANGED notTable

NextTable == ToTableReadout \/ ToTableReturn \/ MonitorReadout \/ MonitorDrained

SpecTable == InitTable /\ [][NextTable]_vars

\* How many of the rows are the hit that was split.
SplitHitRows(rows) ==
    Cardinality({i \in 1..Len(rows) : rows[i].data = reverse_bit_order(HIT_CHIP5)})

\* C19: when the readouts of a file or of the monitor's stream are decoded
\* one after the other, the extra bytes of a readout are given to the decode
\* of the next one, so that a hit split across two readouts comes out exactly
\* once (as one table row).
C19_SplitHitAppearsOnce ==
    tbl.phase \in {"done", "raised"} =>
        /\ tbl.phase = "done"
        /\ SplitHitRows(tbl.rows) = 1

\* The bytes the first readout set aside are the beginning of the split hit,
\* and no decode call was given them.
ExtraBytesNeverPassed ==
    (tbl.phase = "done" /\ Len(tbl.extra) = 2) =>
        /\ tbl.extra[1] = Some(Slice(HIT_CHIP5, 0, tbl.cut))
        /\ SplitHitRows(tbl.rows) = 0

(***************************************************************************)
(* The default timestamp predicate of rowcolmatch                          *)
(***************************************************************************)

\* The ToT difference of the row and the column is inside the default window.
InTotWindow == rcm.chip0[1].tot_total - rcm.chip0[2].tot_total \in 7..14

\* C20 as stated: a row half-hit with timestamp t and a column half-hit with
\* timestamp t' (ToT difference inside the default window) are matched if and
\* only if t' = t or t' = t + 1: the column is on the same tick or one later.
C20_ColumnSameTickOrOneLater ==
    (rcm.phase = "matched" /\ RowThenCol /\ InTotWindow) =>
        (Len(rcm.out) = 1 <=>
            rcm.chip0[2].timestamp \in {rcm.chip0[1].timestamp, rcm.chip0[1].timestamp + 1})

\* C20 amended: they are matched if and only if t' = t or t' = t - 1: the
\* column is on the same tick as the row or exactly one tick earlier.
C20_ColumnSameTickOrOneEarlier ==
    (rcm.phase = "matched" /\ RowThenCol /\ InTotWindow) =>
        /\ Len(rcm.out) \in {0, 1}
        /\ Len(rcm.out) = 1 <=>
              rcm.chip0[2].timestamp \in {rcm.chip0[1].timestamp, rcm.chip0[1].timestamp - 1}

\* A row on tick 6 and a column on tick 5, ToT difference 10, were matched.
C20_Witness ==
    /\ rcm.phase = "matched" /\ RowThenCol /\ InTotWindow
    /\ rcm.chip0[1].timestamp = 6 /\ rcm.chip0[2].timestamp = 5
    /\ Len(rcm.out) = 1
    /\ rcm.out[1].row_timestamp = 6 /\ rcm.out[1].col_timestamp = 5

(***************************************************************************)
(* The columns a row half-hit is tested against                            *)
(***************************************************************************)

\* The lines (1-based) of the column entries after the row at line l.
ColumnsAfter(chip0, l) == {i \in (l + 1)..Len(chip0) : chip0[i].isCol = 1}

\* The line of the next column entry after the row at line l.
NextColumn(chip0, l) == CHOOSE i \in ColumnsAfter(chip0, l) : \A j \in ColumnsAfter(chip0, l) : i <= j

\* The lines of the run of consecutive column entries that begins with the
\* next column entry after the row at line l.
ColumnRun(chip0, l) ==
    IF ColumnsAfter(chip0, l) = {} THEN {}
    ELSE {i \in ColumnsAfter(chip0, l) :
             \A j \in NextColumn(chip0, l)..i : chip0[j].isCol = 1}

\* The records of the row at line l with the columns at the lines of cols
\* that satisfy both predicates, in the order of the lines from line i on.
RECURSIVE RecordsWith(_, _, _, _)
RecordsWith(chip0, l, cols, i) ==
    IF i > Len(chip0) THEN <<>>
    ELSE (IF i \in cols /\ Matches(chip0[l], chip0[i])
          THEN <<MatchedRecord(chip0[l], chip0[i])>> ELSE <<>>)
         \o RecordsWith(chip0, l, cols, i + 1)

\* The records of all the rows from line l on, each row tested against the
\* next column entry only.
RECURSIVE NextColumnOnly(_, _)
NextColumnOnly(chip0, l) ==
    IF l > Len(chip0) THEN <<>>
    ELSE (IF chip0[l].isCol = 0 /\ ColumnsAfter(chip0, l) # {}
          THEN RecordsWith(chip0, l, {NextColumn(chip0, l)}, l + 1) ELSE <<>>)
         \o NextColumnOnly(chip0, l + 1)

\* The records of all the rows from line l on, each row tested against the
\* run of consecutive column entries after it.
RECURSIVE WholeColumnRun(_, _)
WholeColumnRun(chip0, l) ==
    IF l > Len(chip0) THEN <<>>
    ELSE (IF chip0[l].isCol = 0
          THEN RecordsWith(chip0, l, ColumnRun(chip0, l), l + 1) ELSE <<>>)
         \o WholeColumnRun(chip0, l + 1)

\* The number of row entries of the data.
NumRows(chip0) == Cardinality({i \in 1..Len(chip0) : chip0[i].isCol = 0})

MaxShapeCalls == 3  \* calls on the histogram
MaxArrayLen == 3    \* length of the arrays handed to set_content and set_errors

\* The arrays handed to set_content and set_errors.
ShapeArrays == UNION {[1..n -> {0, 1}] : n \in 1..MaxArrayLen}

\* AbstractHistogram.reset
reset(h) == [h EXCEPT !.content = zeros(h.shape), !.sumw2 = zeros(h.shape)]

\* set_content(content) and set_content(content, errors): errs is None or
\* the array of errors.
SetContentCall(h, content, errs) ==
    IF errs # None THEN set_content(h, content, errs[1])
    ELSE IF check_array_shape(h, content) # "ok"
    THEN [outcome |-> check_array_shape(h, content), self |-> h]
    ELSE [outcome |-> "ok", self |-> [h EXCEPT !.content = content]]

\* fill on a histogram whose arrays may have any length: `self._content +=
\* content` and `self._sumw2 += sumw2` raise ValueError when the array on the
\* left has not the shape of the bins.
FillCall(h, x, weights) ==
    IF Len(h.content) # h.shape THEN [outcome |-> "ValueError", self |-> h]
    ELSE IF Len(h.sumw2) # h.shape
    THEN [outcome |-> "ValueError",
          self |-> [h EXCEPT !.content =
                       FillBin([h EXCEPT !.sumw2 = zeros(h.shape)],
                               BinOf(h.bin_edges, x),
                               IF weights = None THEN 1 ELSE weights[1]).content]]
    ELSE [outcome |-> "ok", self |-> fill(h, x, weights)]

InitShape ==
    /\ DecIdle /\ FileIdle /\ HdrIdle /\ RowColIdle /\ ScanIdle
    /\ GrayIdle /\ LogIdle /\ ConvIdle /\ MonIdle /\ LoopIdle /\ TableIdle
    /\ FitIdle /\ RunIdle /\ QuadIdle /\ WindowIdle /\ LiveIdle /\ FilterIdle
    /\ hst = [phase |-> "shape", h |-> Histogram(Edges), ncalls |-> 0,
              before |-> Histogram(Edges),
              last |-> [op |-> "none", outcome |-> "none", array |-> <<>>]]

\* The histogram and the record of a call that ended as `call`.
Called(op, array, call) ==
    /\ hst' = [hst EXCEPT !.h = call.self, !.ncalls = @ + 1, !.before = hst.h,
                          !.last = [op |-> op, outcome |-> call.outcome, array |-> array]]
    /\ UNCHANGED notHist

\* h.fill(x, weights=w)
ShapeFill ==
    /\ hst.phase = "shape" /\ hst.ncalls < MaxShapeCalls
    /\ \E x \in FillValues, w \in FillWeights : Called("fill", <<>>, FillCall(hst.h, x, w))

\* h.set_content(content) or h.set_content(content, errors)
SetContent ==
    /\ hst.phase = "shape" /\ hst.ncalls < MaxShapeCalls
    /\ \E content \in ShapeArrays, errs \in {None} \cup {Some(Sqrt(zeros(n))) : n \in 1..MaxArrayLen} :
          Called(IF errs = None THEN "set_content" ELSE "set_content_errors", content,
                 SetContentCall(hst.h, content, errs))

\* h.set_errors(errors)
SetErrors ==
    /\ hst.phase = "shape" /\ hst.ncalls < MaxShapeCalls
    /\ \E errs \in ShapeArrays :
          Called("set_errors", errs, set_errors(hst.h, Sqrt(errs)))

\* h.reset()
Reset ==
    /\ hst.phase = "shape" /\ hst.ncalls < MaxShapeCalls
    /\ Called("reset", <<>>, [outcome |-> "ok", self |-> reset(hst.h)])

NextShape == ShapeFill \/ SetContent \/ SetErrors \/ Reset

SpecShape == InitShape /\ [][NextShape]_vars

\* C22: set_content and set_errors accept an array if and only if its shape
\* is the bin shape of the histogram; an accepted array is stored, any other
\* raises InvalidShapeError and leaves content and sumw2 as they were; so
\* both arrays keep the shape fixed at construction after any sequence of
\* fill, set_content, set_errors and reset.
C22_ArraysKeepBinShape ==
    hst.phase = "shape" =>
        /\ Len(hst.h.content) = hst.h.shape /\ Len(hst.h.sumw2) = hst.h.shape
        /\ hst.last.op \in {"set_content", "set_errors"} =>
              /\ hst.last.outcome = "ok" <=> Len(hst.last.array) = hst.h.shape
              /\ hst.last.outcome # "ok" =>
                    /\ hst.last.outcome = "InvalidShapeError"
                    /\ hst.h.content = hst.before.content
                    /\ hst.h.sumw2 = hst.before.sumw2
              /\ (hst.last.outcome = "ok" /\ hst.last.op = "set_content") =>
                    hst.h.content = hst.last.array
              /\ (hst.last.outcome = "ok" /\ hst.last.op = "set_errors") =>
                    hst.h.sumw2 = hst.last.array

\* What the check does: an array of the bin shape is refused and nothing is
\* stored, an array of another shape is stored.
ShapeCheckInverted ==
    (hst.phase = "shape" /\ hst.last.op \in {"set_content", "set_errors"}) =>
        /\ hst.last.outcome = "InvalidShapeError" <=> Len(hst.last.array) = hst.h.shape
        /\ hst.last.outcome = "InvalidShapeError" => hst.h = hst.before

(***************************************************************************)
(* modeling.py: AbstractFitModel.fit.  The numbers the least-squares       *)
(* routine returns are not modelled: a parameter vector is "default" (the  *)
(* class defaults), "init" (set by init_parameters) or "fitted"; curve_fit *)
(* either returns or raises.                                               *)
(***************************************************************************)

MaxPoints == 3     \* data points handed to a fit
MaxFits == 2       \* fit calls on the model

\* The two model classes: their number of parameters (len(self)) and
\* whether init_parameters sets the parameters from the data.
FitModels == {[name |-> "Constant", npars |-> 1, inits |-> TRUE],
              [name |-> "Line", npars |-> 2, inits |-> FALSE]}

XValues == 0..2
XData == UNION {[1..n -> XValues] : n \in 0..MaxPoints}

\* AbstractFitModel.__init__
FitModel(class) ==
    [class |-> class, popt |-> "default", pcov |-> "zeros", chisq |-> "none",
     ndof |-> -1, xmin |-> 0, xmax |-> 1]

\* xdata[_mask] with _mask = np.logical_and(xdata >= xmin, xdata <= xmax)
Masked(xdata, xmin, xmax) ==
    LET RECURSIVE Pick(_)
        Pick(i) == IF i > Len(xdata) THEN <<>>
                   ELSE (IF xdata[i] >= xmin /\ xdata[i] <= xmax THEN <<xdata[i]>> ELSE <<>>)
                        \o Pick(i + 1)
    IN  Pick(1)

SeqMin(s) == CHOOSE x \in {s[i] : i \in 1..Len(s)} : \A i \in 1..Len(s) : x <= s[i]
SeqMax(s) == CHOOSE x \in {s[i] : i \in 1..Len(s)} : \A i \in 1..Len(s) : x >= s[i]

\* init_parameters: a no-op in the base class, Constant sets its parameter.
init_parameters(self) == IF self.class.inits THEN [self EXCEPT !.popt = "init"] ELSE self

\* fit, from the call of curve_fit on: the model is updated when curve_fit
\* returns, and left as it is when curve_fit raises.
FitSelected(self, xdata, converges) ==
    IF ~converges THEN [outcome |-> "curve_fit raised", self |-> self]
    ELSE [outcome |-> "ok",
          self |-> [self EXCEPT !.xmin = SeqMin(xdata), !.xmax = SeqMax(xdata),
                                !.popt = "fitted", !.pcov = "fitted", !.chisq = "computed",
                                !.ndof = Len(xdata) - self.class.npars]]

\* fit, the test `if len(xdata) <= len(self): raise RuntimeError`.
EnoughData(self, xdata) == ~(Len(xdata) <= self.class.npars)

\* AbstractFitModel.fit(xdata, ydata, p0, xmin=xmin, xmax=xmax): the model
\* after the call and the outcome.  p0 is None or given.
model_fit(self, xdata, p0, converges) ==
    IF ~EnoughData(self, xdata) THEN [outcome |-> "RuntimeError", self |-> self]
    ELSE FitSelected(IF p0 = None THEN init_parameters(self) ELSE self, xdata, converges)

InitFit ==
    /\ DecIdle /\ FileIdle /\ HdrIdle /\ HistIdle /\ RowColIdle /\ ScanIdle
    /\ GrayIdle /\ LogIdle /\ ConvIdle /\ MonIdle /\ LoopIdle /\ TableIdle
    /\ RunIdle /\ QuadIdle /\ WindowIdle /\ LiveIdle /\ FilterIdle
    /\ \E class \in FitModels :
          fit = [phase |-> "model", self |-> FitModel(class), nfits |-> 0,
                 before |-> FitModel(class),
                 last |-> [outcome |-> "none", npoints |-> 0]]

Fitted(xdata, call) ==
    /\ fit' = [fit EXCEPT !.self = call.self, !.nfits = @ + 1, !.before = fit.self,
                          !.last = [outcome |-> call.outcome, npoints |-> Len(xdata)]]
    /\ UNCHANGED notFit

\* model.fit(xdata, ydata, p0, xmin=xmin, xmax=xmax)
FitCall ==
    /\ fit.phase = "model" /\ fit.nfits < MaxFits
    /\ \E xdata \in XData, xmin \in XValues, xmax \in XValues,
          p0 \in {None, Some("given")}, converges \in BOOLEAN :
          Fitted(Masked(xdata, xmin, xmax),
                 model_fit(fit.self, Masked(xdata, xmin, xmax), p0, converges))

NextFit == FitCall

SpecFit == InitFit /\ [][NextFit]_vars

\* C23: a fit fails exactly when fewer points than parameters are left after
\* the restriction to the x range (with exactly as many it is carried out),
\* and a failed fit leaves the parameters, the covariance, the chi-square,
\* the degrees of freedom and the plotting range of the model as they were.
C23_FitFailsBelowParameterCount ==
    (fit.phase = "model" /\ fit.nfits > 0) =>
        /\ fit.last.outcome # "ok" <=> fit.last.npoints < fit.self.class.npars
        /\ fit.last.outcome # "ok" => fit.self = fit.before

\* What the test of the number of points does on its own: RuntimeError
\* exactly for at most as many points as parameters, the model untouched.
FitRefusedUpToParameterCount ==
    (fit.phase = "model" /\ fit.nfits > 0) =>
        /\ fit.last.outcome = "RuntimeError" <=> fit.last.npoints <= fit.self.class.npars
        /\ fit.last.outcome = "RuntimeError" => fit.self = fit.before
        /\ fit.last.outcome = "ok" => fit.self.ndof = fit.last.npoints - fit.self.class.npars

(***************************************************************************)
(* analysis.py and tools_grant.py: the last hit of a buffer.  A run is the *)
(* rows of a decoded csv file: dec_ord (the order of the hit in its        *)
(* buffer, 0 for the first), tot (the ToT in us), row and col.             *)
(***************************************************************************)

MaxRows == 4       \* rows of the csv file

ToTs == {5, 20}
MaxToTs == {10, 100}

\* The rows of a csv file the decoders write: dec_ord is 0 for the first hit
\* of a buffer and counts up inside the buffer.
RunRows(n) ==
    {rows \in [1..n -> [dec_ord : 0..(MaxRows - 1), tot : ToTs]] :
        \A i \in 1..n : rows[i].dec_ord = 0 \/ (i > 1 /\ rows[i].dec_ord = rows[i - 1].dec_ord + 1)}

\* Run.filter_last_tot, the loop `for i in range(len(self) - 1)` from i on:
\* the ToT of the rows followed by a row with dec_ord 0.
RECURSIVE FilterLoop(_, _, _, _)
FilterLoop(rows, maxtot, i, filtered_tot) ==
    IF i >= Len(rows) - 1 THEN filtered_tot
    ELSE FilterLoop(rows, maxtot, i + 1,
                    IF rows[i + 2].dec_ord = 0 /\ rows[i + 1].tot <= maxtot
                    THEN Append(filtered_tot, rows[i + 1].tot) ELSE filtered_tot)

\* Run.filter_last_tot(maxtot): the list returned, or the exception.  After
\* the loop i is the last index the loop took (len - 2); with one row the
\* loop never runs and i is not bound.
filter_last_tot(rows, maxtot) ==
    IF Len(rows) = 0 THEN [outcome |-> "ok", ret |-> <<>>]
    ELSE IF Len(rows) = 1 THEN [outcome |-> "UnboundLocalError", ret |-> <<>>]
    ELSE [outcome |-> "ok",
          ret |-> IF rows[Len(rows) - 1].tot <= maxtot
                  THEN Append(FilterLoop(rows, maxtot, 0, <<>>), rows[Len(rows)].tot)
                  ELSE FilterLoop(rows, maxtot, 0, <<>>)]

\* A mask loop that only clears the row with a nonzero dec_ord.
RECURSIVE MaskLoop_KeepPrevious(_, _, _)
MaskLoop_KeepPrevious(rows, i, mask_array) ==
    IF i >= Len(rows) THEN mask_array
    ELSE MaskLoop_KeepPrevious(rows, i + 1,
                  [mask_array EXCEPT ![i + 1] = IF rows[i + 1].dec_ord = 0 THEN 1 ELSE 0])

\* data_cleaner, the loop over dec_order_array from i on (the rows lie inside
\* the pixel grid, row <= 16 and col <= 16): a row with dec_ord 0 is marked,
\* a row with another dec_ord clears its own mark and the mark of the row
\* before it (index i - 1, which is the last row for i = 0).
RECURSIVE MaskLoop(_, _, _)
MaskLoop(rows, i, mask_array) ==
    IF i >= Len(rows) THEN mask_array
    ELSE MaskLoop(rows, i + 1,
                  IF rows[i + 1].dec_ord = 0 THEN [mask_array EXCEPT ![i + 1] = 1]
                  ELSE [mask_array EXCEPT ![i + 1] = 0,
                                          ![IF i = 0 THEN Len(rows) ELSE i] = 0])

\* data_cleaner: the indices (1-based) of the rows it keeps.
data_cleaner(rows) ==
    {i \in 1..Len(rows) : MaskLoop(rows, 0, [j \in 1..Len(rows) |-> 0])[i] = 1}

InitRun ==
    /\ DecIdle /\ FileIdle /\ HdrIdle /\ HistIdle /\ RowColIdle /\ ScanIdle
    /\ GrayIdle /\ LogIdle /\ ConvIdle /\ MonIdle /\ LoopIdle /\ TableIdle
    /\ FitIdle /\ QuadIdle /\ WindowIdle /\ LiveIdle /\ FilterIdle
    /\ \E n \in 0..MaxRows : \E rows \in RunRows(n) :
          run = [phase |-> "read", rows |-> rows, filtered |-> None, cleaned |-> None]

\* run.filter_last_tot(maxtot)
FilterLastTot ==
    /\ run.phase = "read" /\ run.filtered = None
    /\ \E maxtot \in MaxToTs :
          run' = [run EXCEPT !.filtered =
                     Some([maxtot |-> maxtot,
                           outcome |-> filter_last_tot(run.rows, maxtot).outcome,
                           ret |-> filter_last_tot(run.rows, maxtot).ret])]
    /\ UNCHANGED notRun

\* data_cleaner(file)
DataCleaner ==
    /\ run.phase = "read" /\ run.cleaned = None
    /\ run' = [run EXCEPT !.cleaned = Some(data_cleaner(run.rows))]
    /\ UNCHANGED notRun

NextRun == FilterLastTot \/ DataCleaner

SpecRun == InitRun /\ [][NextRun]_vars

\* The rows that are the last row of their buffer.
LastOfBuffer(rows) ==
    {i \in 1..Len(rows) : i = Len(rows) \/ rows[i + 1].dec_ord = 0}

\* The ToT of the rows of the set keep from row i on, in row order.
RECURSIVE ToTOf(_, _, _)
ToTOf(rows, keep, i) ==
    IF i > Len(rows) THEN <<>>
    ELSE (IF i \in keep THEN <<rows[i].tot>> ELSE <<>>) \o ToTOf(rows, keep, i + 1)

\* C24: for a run of n >= 1 rows filter_last_tot(maxtot) returns, in row
\* order, the ToT of exactly the rows that are the last of their buffer and
\* whose own ToT is at most maxtot; the last row of the file is kept or
\* rejected by its own ToT, also for n = 1.
C24_LastToTOfEachBuffer ==
    (run.phase = "read" /\ run.filtered # None /\ Len(run.rows) >= 1) =>
        /\ run.filtered[1].outcome = "ok"
        /\ run.filtered[1].ret =
              ToTOf(run.rows,
                    {i \in LastOfBuffer(run.rows) : run.rows[i].tot <= run.filtered[1].maxtot}, 1)

\* The rows of the buffers that hold one hit only.
SingleHitBuffers(rows) ==
    {i \in LastOfBuffer(rows) : rows[i].dec_ord = 0}

\* C25 as stated: on a csv file whose rows lie inside the pixel grid,
\* data_cleaner keeps exactly the rows that are the last hit of their buffer,
\* the rows whose ToT filter_last_tot returns for a maxtot above every ToT;
\* a buffer with several hits contributes its last row.
C25_CleanerKeepsLastOfBuffer ==
    (run.phase = "read" /\ run.cleaned # None) =>
        /\ run.cleaned[1] = LastOfBuffer(run.rows)
        /\ (run.filtered # None /\ run.filtered[1].maxtot = 100) =>
              run.filtered[1].ret = ToTOf(run.rows, run.cleaned[1], 1)

\* C25 amended: data_cleaner keeps exactly the rows with dec_ord 0 that are
\* followed by a row with dec_ord 0 or by the end of the file, the rows of the
\* buffers with a single hit; a buffer with several hits contributes no row.
C25_CleanerKeepsSingleHitBuffers ==
    (run.phase = "read" /\ run.cleaned # None) =>
        /\ run.cleaned[1] = SingleHitBuffers(run.rows)
        /\ run.cleaned[1] \subseteq LastOfBuffer(run.rows)
        /\ \A i \in 1..Len(run.rows) :
              run.rows[i].dec_ord # 0 => {i - 1, i} \cap run.cleaned[1] = {}

\* A buffer of two hits followed by a buffer of one hit: only the row of the
\* second buffer was kept.
C25_Witness ==
    /\ run.phase = "read" /\ run.cleaned # None /\ Len(run.rows) = 3
    /\ run.rows[1].dec_ord = 0 /\ run.rows[2].dec_ord = 1 /\ run.rows[3].dec_ord = 0
    /\ run.cleaned[1] = {3}

(***************************************************************************)
(* Quad_Chip_Decoder.py, binary mode: the file is read in chunks and the   *)
(* frames that begin with the marker 0a01 are decoded; the beginning of a  *)
(* frame cut by the end of a chunk is stored for the next chunk.  The      *)
(* program reads chunks of 1024 bytes, which is 1 modulo the frame size;   *)
(* the model reads chunks of a few bytes, of every size modulo the frame   *)
(* size.                                                                   *)
(***************************************************************************)

FRAME_SIZE == 11
MaxFrames == 4     \* frames of the stream

FrameMarker == <<10, 1>>
ChunkSizes == FRAME_SIZE..(2 * FRAME_SIZE + 1)

\* The k-th frame of the stream: the marker, then 9 bytes that tell the
\* frames apart and hold no marker.
Frame(k) == FrameMarker \o <<50 + k>> \o [i \in 1..(FRAME_SIZE - 3) |-> 0]

RECURSIVE FrameStream(_, _)
FrameStream(k, n) == IF k > n THEN <<>> ELSE Frame(k) \o FrameStream(k + 1, n)

\* The elements of a set of numbers in increasing order.
RECURSIVE Ascending(_)
Ascending(S) ==
    IF S = {} THEN <<>>
    ELSE LET least == CHOOSE x \in S : \A y \in S : x <= y
         IN  <<least>> \o Ascending(S \ {least})

\* The (0-based) indexes of the marker in full_line, `full_line.find` called
\* again and again from the index after the last one found.
MarkerIndexes(full_line) ==
    Ascending({i \in 0..(Len(full_line) - 2) :
                  full_line[i + 1] = FrameMarker[1] /\ full_line[i + 2] = FrameMarker[2]})

\* list_of_right_header_indexes[mask_list]: an index is kept when the next
\* one is at least a frame away; the last one is always kept.
RightHeaderIndexes(indexes) ==
    LET RECURSIVE Kept(_)
        Kept(j) == IF j > Len(indexes) THEN <<>>
                   ELSE (IF j = Len(indexes) \/ indexes[j + 1] - indexes[j] >= FRAME_SIZE
                         THEN <<indexes[j]>> ELSE <<>>) \o Kept(j + 1)
    IN  Kept(1)

\* The frames at the indexes of full_line.
FramesAt(full_line, indexes) ==
    [j \in 1..Len(indexes) |-> Slice(full_line, indexes[j], indexes[j] + FRAME_SIZE)]

\* Decode_and_Write_Line in binary mode, after the indexes are found: a last
\* frame that runs over the end is stored and not decoded.
DecodeIndexes(full_line, stored, indexes) ==
    IF Len(indexes) = 0 THEN [decoded_list |-> <<>>, stored_split_first_part |-> stored]
    ELSE IF indexes[Len(indexes)] + FRAME_SIZE > Len(full_line)
    THEN [decoded_list |-> FramesAt(full_line, SubSeq(indexes, 1, Len(indexes) - 1)),
          stored_split_first_part |-> Some(Slice(full_line, indexes[Len(indexes)], Len(full_line)))]
    ELSE [decoded_list |-> FramesAt(full_line, indexes), stored_split_first_part |-> None]

\* Decode_and_Write_Line(chunk, stored_split_first_part, ..., is_bin=True)
Decode_and_Write_Line(chunk, stored) ==
    DecodeIndexes(IF stored # None THEN stored[1] \o chunk ELSE chunk, stored,
                  RightHeaderIndexes(MarkerIndexes(IF stored # None THEN stored[1] \o chunk
                                                   ELSE chunk)))

InitQuad ==
    /\ DecIdle /\ FileIdle /\ HdrIdle /\ HistIdle /\ RowColIdle /\ ScanIdle
    /\ GrayIdle /\ LogIdle /\ ConvIdle /\ MonIdle /\ LoopIdle /\ TableIdle
    /\ FitIdle /\ RunIdle /\ WindowIdle /\ LiveIdle /\ FilterIdle
    /\ \E n \in 1..MaxFrames, chunk_size \in ChunkSizes :
          qdc = [phase |-> "read", nframes |-> n, stream |-> FrameStream(1, n),
                 chunk_size |-> chunk_size, pos |-> 0,
                 stored_split_first_part |-> None, written |-> <<>>, cut |-> {}]

\* What a chunk leaves behind.
ChunkDecoded(chunk, d) ==
    /\ qdc' = [qdc EXCEPT !.pos = @ + Len(chunk),
                          !.stored_split_first_part = d.stored_split_first_part,
                          !.written = @ \o d.decoded_list,
                          !.cut = @ \cup {(qdc.pos + Len(chunk)) % FRAME_SIZE}]
    /\ UNCHANGED notQuad

\* main, one turn of the loop: chunk = read_file.read(chunk_size), not empty,
\* is decoded and its frames are written.
ReadChunk ==
    /\ qdc.phase = "read" /\ qdc.pos < Len(qdc.stream)
    /\ ChunkDecoded(Slice(qdc.stream, qdc.pos, qdc.pos + qdc.chunk_size),
                    Decode_and_Write_Line(Slice(qdc.stream, qdc.pos, qdc.pos + qdc.chunk_size),
                                          qdc.stored_split_first_part))

\* main, the empty chunk at the end of the file: the loop ends and the files
\* are closed.
EndOfStream ==
    /\ qdc.phase = "read" /\ qdc.pos >= Len(qdc.stream)
    /\ qdc' = [qdc EXCEPT !.phase = "closed"]
    /\ UNCHANGED notQuad

NextQuad == ReadChunk \/ EndOfStream

SpecQuad == InitQuad /\ [][NextQuad]_vars

\* C26: in binary mode every frame of a stream of well-formed frames is
\* decoded exactly once and in stream order, wherever the ends of the chunks
\* fall: a frame cut at any of its 10 interior positions is completed with
\* the next chunk.
C26_EveryFrameDecodedOnce ==
    /\ qdc.phase = "closed" => qdc.written = [k \in 1..qdc.nframes |-> Frame(k)]
    /\ qdc.phase = "read" =>
          \E n \in 0..qdc.nframes : qdc.written = [k \in 1..n |-> Frame(k)]

\* When no chunk ends one byte into a frame, every frame is decoded once and
\* in order.
FramesDecodedUnlessMarkerCut ==
    (qdc.phase = "closed" /\ 1 \notin qdc.cut) =>
        qdc.written = [k \in 1..qdc.nframes |-> Frame(k)]

(***************************************************************************)
(* Source_Decoder.py: the log file is decoded in windows of maxrows lines. *)
(* The program is given the number of lines of the file; the file has 7    *)
(* header lines and then its data lines.                                   *)
(***************************************************************************)

maxrows == 100000
HEADER_LINES == 7
MaxQuarters == 12  \* the files have up to this many quarters of a window

\* The numbers of lines given: around every quarter of a window.
LineCounts == {j * (maxrows \div 4) + d : j \in 1..MaxQuarters, d \in {-1, 0, 7, 8}}

\* round(n / m) of Python 3 for n >= 0: to the nearest integer, a half to the
\* even neighbour.
PyRound(n, m) ==
    IF 2 * (n % m) > m THEN (n \div m) + 1
    ELSE IF 2 * (n % m) < m THEN n \div m
    ELSE IF (n \div m) % 2 = 0 THEN n \div m ELSE (n \div m) + 1

\* range(round(lines/maxrows))
NumWindows(lines) == PyRound(lines, maxrows)

Min2(a, b) == IF a <= b THEN a ELSE b

\* np.loadtxt(skiprows=7 + k*maxrows, max_rows=maxrows) on a file of `lines`
\* lines: the data lines read, from (0-based, first data line is 0) to
\* (exclusive).
WindowRead(lines, k) ==
    [from |-> Min2(k * maxrows, lines - HEADER_LINES),
     to |-> Min2((k + 1) * maxrows, lines - HEADER_LINES)]

InitWindow ==
    /\ DecIdle /\ FileIdle /\ HdrIdle /\ HistIdle /\ RowColIdle /\ ScanIdle
    /\ GrayIdle /\ LogIdle /\ ConvIdle /\ MonIdle /\ LoopIdle /\ TableIdle
    /\ FitIdle /\ RunIdle /\ QuadIdle /\ LiveIdle /\ FilterIdle
    /\ \E lines \in LineCounts :
          win = [phase |-> "windows", lines |-> lines, K |-> NumWindows(lines), k |-> 0,
                 windows |-> <<>>]

\* One turn of `for k in range(round(lines/maxrows))`: the window is read,
\* decoded and written to its csv file.
Window ==
    /\ win.phase = "windows" /\ win.k < win.K
    /\ win' = [win EXCEPT !.k = @ + 1, !.windows = Append(@, WindowRead(win.lines, win.k))]
    /\ UNCHANGED notWindow

\* After the loop: the csv files of the windows are concatenated.
Concat ==
    /\ win.phase = "windows" /\ win.k = win.K
    /\ win' = [win EXCEPT !.phase = "done"]
    /\ UNCHANGED notWindow

NextWindow == Window \/ Concat

SpecWindow == InitWindow /\ [][NextWindow]_vars

\* The data lines of the file are read by the windows once each, in order.
CoversEveryDataLine(w) ==
    /\ Len(w.windows) >= 1
    /\ w.windows[1].from = 0
    /\ w.windows[Len(w.windows)].to = w.lines - HEADER_LINES
    /\ \A j \in 1..(Len(w.windows) - 1) : w.windows[j].to = w.windows[j + 1].from

\* C27: for any number L of lines the windows (window k skips 7 + k*100000
\* lines and reads at most 100000) cover every data line exactly once: the
\* number of windows K has K*100000 >= L - 7 and no data line falls after
\* the last window.
C27_WindowsCoverEveryLine ==
    win.phase = "done" =>
        /\ win.K * maxrows >= win.lines - HEADER_LINES
        /\ CoversEveryDataLine(win)

\* The windows never overlap and never start past the end of the file; what
\* is lost is the lines after the last window.
WindowsReadAPrefix ==
    win.phase = "done" =>
        /\ \A j \in 1..Len(win.windows) :
              /\ win.windows[j].from = (j - 1) * maxrows
              /\ win.windows[j].from < win.windows[j].to
        /\ \A j \in 1..(Len(win.windows) - 1) : win.windows[j].to = win.windows[j + 1].from

(***************************************************************************)
(* Live_Decoder_and_Plotter.py: the log file grows while the program polls *)
(* it.  The file is its number of lines: skip_rows header lines, then the  *)
(* data lines, numbered from 1 in the order they were written.             *)
(***************************************************************************)

MaxLiveLines == 10 \* data lines the log file comes to hold
MaxAtStartup == 2  \* data lines in the file when the program starts
MaxAppended == 3   \* lines appended between two polls

\* skip_rows of the chip versions '3', '4' and 'quad3'.
SkipRows == {6, 7, 121}

\* read_from_line(file_path, num_lines_to_skip) on a file of `total` lines:
\* the (1-based) numbers of the lines returned.  next(file) raises
\* StopIteration when fewer lines are there, and [] is returned.
read_from_line(total, num_lines_to_skip) ==
    IF total < num_lines_to_skip THEN <<>>
    ELSE [i \in 1..(total - num_lines_to_skip) |-> num_lines_to_skip + i]

\* The data lines among the lines read, by their number among the data lines.
DataLinesOf(read, skip_rows) == [i \in 1..Len(read) |-> read[i] - skip_rows]

InitLive ==
    /\ DecIdle /\ FileIdle /\ HdrIdle /\ HistIdle /\ RowColIdle /\ ScanIdle
    /\ GrayIdle /\ LogIdle /\ ConvIdle /\ MonIdle /\ LoopIdle /\ TableIdle
    /\ FitIdle /\ RunIdle /\ QuadIdle /\ WindowIdle /\ FilterIdle
    /\ \E skip_rows \in SkipRows, n \in 0..MaxAtStartup :
          liv = [phase |-> "start", skip_rows |-> skip_rows, total |-> skip_rows + n,
                 log_file_length |-> 0, decoded |-> <<>>]

\* main up to the loop: the lines after the header are read and decoded,
\* log_file_length = len(first_data) + skip_rows, and then
\* log_file_length += 7.
Startup ==
    /\ liv.phase = "start"
    /\ liv' = [liv EXCEPT !.phase = "loop",
                  !.decoded = DataLinesOf(read_from_line(liv.total, liv.skip_rows), liv.skip_rows),
                  !.log_file_length =
                      Len(read_from_line(liv.total, liv.skip_rows)) + liv.skip_rows + 7]
    /\ UNCHANGED notLive

\* The DAQ appends lines to the log file.
AppendLines ==
    /\ liv.phase \in {"start", "loop"}
    /\ \E n \in 1..MaxAppended :
          /\ liv.total + n <= liv.skip_rows + MaxLiveLines
          /\ liv' = [liv EXCEPT !.total = @ + n]
    /\ UNCHANGED notLive

\* One turn of the loop: new_data = read_from_line(log_file_name,
\* log_file_length), every line is decoded, log_file_length += len(new_data).
Poll ==
    /\ liv.phase = "loop"
    /\ liv' = [liv EXCEPT
                  !.decoded = @ \o DataLinesOf(read_from_line(liv.total, liv.log_file_length),
                                               liv.skip_rows),
                  !.log_file_length = @ + Len(read_from_line(liv.total, liv.log_file_length))]
    /\ UNCHANGED notLive

\* KeyboardInterrupt: the loop ends.
StopLive ==
    /\ liv.phase = "loop"
    /\ liv' = [liv EXCEPT !.phase = "closed"]
    /\ UNCHANGED notLive

NextLive == Startup \/ AppendLines \/ Poll \/ StopLive

SpecLive == InitLive /\ [][NextLive]_vars

\* C28: over the startup read and all the polls every data line of the log
\* file, present at startup or appended later, is read and handed to the
\* decoder exactly once: none is skipped and none is decoded twice, whatever
\* the pattern of appends between the polls.
C28_EveryLineDecodedOnce ==
    liv.phase \in {"loop", "closed"} =>
        liv.decoded = [i \in 1..Len(liv.decoded) |-> i]

\* No line is decoded twice and the order is kept; the 7 lines appended
\* first after the startup read are the ones never decoded.
SevenLinesSkipped ==
    liv.phase \in {"loop", "closed"} =>
        /\ \A i, j \in 1..Len(liv.decoded) : i < j => liv.decoded[i] < liv.decoded[j]
        /\ \E n \in 0..MaxLiveLines :
              \A i \in 1..Len(liv.decoded) :
                  liv.decoded[i] = IF i <= n THEN i ELSE i + 7


\* ---------------------------------------------------------------------------
\* New_Source_Decoder.py: the recursive filter of one candidate string and the
\* loop of main that reads a data line, strips the filler, splits on the
\* double idle byte and writes one row per filtered hit.  Strings are
\* sequences of one-character strings.
\* ---------------------------------------------------------------------------
MaxHitsPerLine == 3
MaxLogLines == 2
ChipVersions == {3, 4}

Chars(c, n) == [i \in 1..n |-> c]
header_string(chip_version) == IF chip_version = 4 THEN <<"e", "0">> ELSE <<"2", "0">>
characters_per_hit(chip_version) == IF chip_version = 4 THEN 16 ELSE 10

\* Well-formed hits of a chip version: the header byte and a body.
HitStrings(chip_version) ==
    LET n == characters_per_hit(chip_version) - 2
    IN  { header_string(chip_version) \o body :
            body \in {Chars("1", n), Chars("1", n - 2) \o <<"b", "c">>} }

\* Python's String[a:b] with 0-based bounds already made non-negative.
StrSlice(s, a, b) == SubSeq(s, a + 1, b)

RECURSIVE Filter_Function(_, _)
Filter_Function(String, chip_version) ==
    IF ~(characters_per_hit(chip_version) <= Len(String) /\ Len(String) <= 1000) THEN <<>>
    ELSE IF Len(String) = characters_per_hit(chip_version)
            /\ StrSlice(String, 0, 2) = header_string(chip_version)
         THEN <<String>>
    ELSE IF StrSlice(String, Len(String) - characters_per_hit(chip_version),
                     Len(String) - characters_per_hit(chip_version) + 2) = header_string(chip_version)
         THEN <<StrSlice(String, Len(String) - characters_per_hit(chip_version), Len(String))>>
              \o Filter_Function(StrSlice(String, 0, Len(String) - characters_per_hit(chip_version)),
                                 chip_version)
    ELSE IF StrSlice(String, Len(String) - 2, Len(String)) = <<"b", "c">>
         THEN Filter_Function(StrSlice(String, 0, Len(String) - 2), chip_version)
    ELSE <<>>

\* str.find: the 0-based index of the first occurrence of pat at or after
\* from, -1 when there is none.
RECURSIVE StrFind(_, _, _)
StrFind(s, pat, from) ==
    IF from + Len(pat) > Len(s) THEN -1
    ELSE IF StrSlice(s, from, from + Len(pat)) = pat THEN from
    ELSE StrFind(s, pat, from + 1)

\* str.split(pat) with the empty pieces left out, as the loops of main do.
RECURSIVE SplitNonEmpty(_, _)
SplitNonEmpty(s, pat) ==
    IF StrFind(s, pat, 0) = -1 THEN (IF s = <<>> THEN <<>> ELSE <<s>>)
    ELSE (IF StrFind(s, pat, 0) = 0 THEN <<>> ELSE <<StrSlice(s, 0, StrFind(s, pat, 0))>>)
         \o SplitNonEmpty(StrSlice(s, StrFind(s, pat, 0) + Len(pat), Len(s)), pat)

JoinWith(hitstrings, sep) ==
    Flatten([i \in 1..Len(hitstrings) |-> IF i = 1 THEN hitstrings[i] ELSE sep \o hitstrings[i]])

\* The candidates of a line after the too-short trailing fragment is set aside.
Candidates(parts, cph) ==
    IF Len(parts) > 1 /\ Len(parts[Len(parts)]) < cph
    THEN SubSeq(parts, 1, Len(parts) - 1) ELSE parts

StoredPart(parts, cph) ==
    IF Len(parts) > 1 /\ Len(parts[Len(parts)]) < cph
    THEN Some(parts[Len(parts)]) ELSE None

AllFilteredHits(candidates, chip_version) ==
    Flatten([i \in 1..Len(candidates) |-> Filter_Function(candidates[i], chip_version)])

\* One row per filtered hit, the decoding-order counter first.
CsvRows(filtered) == [i \in 1..Len(filtered) |-> [dec_ord |-> i - 1, hit |-> filtered[i]]]

NoFF(data) == Flatten(SplitNonEmpty(data, <<"f", "f", "f", "f">>))

WithStored(stored, s) == IF stored = None THEN s ELSE stored[1] \o s

LineParts(stored, data) ==
    SplitNonEmpty(WithStored(stored, NoFF(data)), <<"b", "c", "b", "c">>)

InitFilter ==
    /\ DecIdle /\ FileIdle /\ HdrIdle /\ HistIdle /\ RowColIdle /\ ScanIdle
    /\ GrayIdle /\ LogIdle /\ ConvIdle /\ MonIdle /\ LoopIdle /\ TableIdle
    /\ FitIdle /\ RunIdle /\ QuadIdle /\ WindowIdle /\ LiveIdle
    /\ \E v \in ChipVersions :
         flt = [phase |-> "open", chip_version |-> v, stored |-> None, lines |-> 0,
                hits |-> <<>>, sep |-> <<>>, before |-> None, rows |-> <<>>]

\* The body of the loop over the lines of the log for one data line: hits
\* joined by sep, then an optional double idle byte and the start of a hit
\* that the line cuts.
FilterLine(hitstrings, sep, cut) ==
    /\ flt.phase \in {"open", "read"}
    /\ flt.lines < MaxLogLines
    /\ flt' = [flt EXCEPT
                 !.phase = "read",
                 !.lines = @ + 1,
                 !.hits = hitstrings, !.sep = sep, !.before = flt.stored,
                 !.stored = StoredPart(LineParts(flt.stored, JoinWith(hitstrings, sep) \o cut),
                                       characters_per_hit(flt.chip_version)),
                 !.rows = CsvRows(AllFilteredHits(
                              Candidates(LineParts(flt.stored, JoinWith(hitstrings, sep) \o cut),
                                         characters_per_hit(flt.chip_version)),
                              flt.chip_version))]
    /\ UNCHANGED notFilter

ReadDataLine ==
    \E k \in 1..MaxHitsPerLine :
      \E hitstrings \in [1..k -> HitStrings(flt.chip_version)] :
        \E sep \in {<<>>, <<"b", "c">>, <<"b", "c", "b", "c">>} :
          \E cut \in {<<>>, <<"b", "c", "b", "c">> \o header_string(flt.chip_version) \o <<"1">>} :
            FilterLine(hitstrings, sep, cut)

\* A line whose first character is no digit (the configuration lines).
SkipLine ==
    /\ flt.phase \in {"open", "read"}
    /\ flt.lines < MaxLogLines
    /\ flt' = [flt EXCEPT !.lines = @ + 1]
    /\ UNCHANGED notFilter

CloseFiles ==
    /\ flt.phase \in {"open", "read"}
    /\ flt' = [flt EXCEPT !.phase = "closed"]
    /\ UNCHANGED notFilter

NextFilter == ReadDataLine \/ SkipLine \/ CloseFiles

SpecFilter == InitFilter /\ [][NextFilter]_vars

\* The line was k >= 2 hits back to back, nothing stored before it and
\* nothing cut after it.
BackToBack ==
    /\ flt.phase = "read"
    /\ Len(flt.hits) >= 2
    /\ flt.sep = <<>>
    /\ flt.before = None
    /\ flt.stored = None

ReverseSeq(s) == [i \in 1..Len(s) |-> s[Len(s) + 1 - i]]

\* C29: for a candidate string of k >= 2 back-to-back well-formed hits with
\* no idle byte between them, the rows written are the k hits in their
\* left-to-right order, the dec_ord counter counting along that order.
C29_BackToBackHitsLeftToRight ==
    BackToBack => flt.rows = CsvRows(flt.hits)

\* What the filter does: all k hits are returned, the last one first.
BackToBackHitsRightToLeft ==
    BackToBack => flt.rows = CsvRows(ReverseSeq(flt.hits))


(***************************************************************************)
(* The extra bytes and the decoding status after a decode                  *)
(***************************************************************************)

\* Where the cursor of decode stands when the call on a readout with this
\* payload ends (the extra_bytes argument does not move the cursor).
LastCursor(data) ==
    DecodeLoop(Readout(data, 0, 0), DecodeOrphans(Readout(data, 0, 0), None)).cursor

\* C30: after any completed decode of an AstroPix4Readout, extra_bytes() is
\* non-None if and only if VALID_EXTRA_BYTES is set in the decoding status,
\* and then its first byte is a valid start byte and it is the payload from
\* the last cursor position to the end.
C30_ExtraBytesIffValidFlag ==
    (scen.kind = "single" /\ res.A.ncalls > 0 /\ res.A.outcome = "ok") =>
        /\ (ro.A.extra # None <=> VALID_EXTRA_BYTES \in ro.A.status)
        /\ (ro.A.extra # None =>
              /\ is_valid_start_byte(Slice(ro.A.extra[1], 0, 1))
              /\ ro.A.extra[1] = Slice(ro.A.data, LastCursor(ro.A.data), Len(ro.A.data)))

\* A completed decode of a readout that holds a whole hit and then a cut one:
\* the cut hit is set aside and the flag is set.
C30_Witness ==
    /\ scen.kind = "single" /\ res.A.ncalls > 0 /\ res.A.outcome = "ok"
    /\ ro.A.data = HIT_1 \o FRAGMENT
    /\ ro.A.extra = Some(FRAGMENT)
    /\ VALID_EXTRA_BYTES \in ro.A.status
    /\ LastCursor(ro.A.data) = HIT_SIZE

\* The other side of the equivalence: truncated data with no valid start
\* byte is flagged as invalid and nothing is set aside.
InvalidExtraNotSetAside ==
    /\ scen.kind = "single" /\ res.A.ncalls > 0 /\ res.A.outcome = "ok"
    /\ INVALID_EXTRA_BYTES \in ro.A.status
    /\ ro.A.extra = None

=============================================================================
